---- MODULE Spec2Model ----
(***************************************************************************)
(* State-machine model of the kanidm-webui-ng authentication layer:        *)
(*   src/src/api/auth.ts          Session Store + negotiation steps        *)
(*   src/src/auth/AuthContext.tsx AuthProvider (status/user, signOut) and  *)
(*                                AccessProvider (UAT, privilege window,   *)
(*                                reauth flow)                             *)
(* Every `await` of the source is an interleaving point: a handler is one  *)
(* action per stretch of synchronous code between two awaits.              *)
(***************************************************************************)
EXTENDS Integers, Sequences, FiniteSets, Bags, TLC

\* ------------------------------------------------------------------ bounds
\* Number of negotiation-step calls that may be in flight at once (the api
\* module has no mutex, so steps of different callers may overlap).
MaxCallers == 2
\* Number of handler runs of one credential update session that send a
\* request (typing, toggling and rejected submissions are not counted).
MaxRuns == 3
\* API calls of a page that may be in flight at once.
MaxPending == 1

\* ------------------------------------------------------------- value sets
\* JavaScript null / undefined.
NULL == "null"
\* Bearer credentials the server may issue.
Creds == {"tokA", "tokB"}
\* Auth-session identifiers the server may put in the response header.
Sids == {"sid1", "sid2"}
\* What response.headers.get(...) can yield: a value, the empty string, null.
HeaderVals == Sids \cup {"", NULL}
\* JavaScript truthiness of a string-or-null value.
Truthy(x) == x \notin {NULL, ""}

\* The exported negotiation steps of api/auth.ts.
AuthRequestOps ==
  {"authInit", "authBegin", "authPassword", "authPasskey", "authTotp",
   "authBackupCode", "authAnonymous"}
StepOps == AuthRequestOps \cup {"reauthBegin"}
\* The endpoint each step posts to.
Endpoint(op) == IF op = "reauthBegin" THEN "/v1/reauth"
                ELSE IF op = "logout" THEN "/v1/logout" ELSE "/v1/auth"

\* Mechanisms a Continue may advertise to the reauth UI.
Mechs == {"password", "totp", "passkey"}

\* AuthResponse.state, as a record of uniform shape.
StSuccess(c)  == [tag |-> "success",  cred |-> c,    allowed |-> {}]
StDenied      == [tag |-> "denied",   cred |-> NULL, allowed |-> {}]
StContinue(a) == [tag |-> "continue", cred |-> NULL, allowed |-> a]
StNone        == [tag |-> "none",     cred |-> NULL, allowed |-> {}]

\* HTTP responses: status, session header, decoded body state.
\* response.ok is true for a 2xx status; one status of each kind is modelled.
HttpOk   == "200"
HttpFail == "500"
Resp(st, sid, state) == [status |-> st, sid |-> sid, state |-> state]
NoResp == Resp(NULL, NULL, StNone)
RespIsOk(r) == r.status = HttpOk

VARIABLES
  tokenStore,      \* Session Store credential (tokenStore.get())
  authSessionId,   \* auth.ts:5 module-level Auth Session Handle
  net,             \* bag of calls in flight, each at its await position
  status,          \* AuthProvider status
  user,            \* AuthProvider user
  so,              \* position of the signOut handler
  mount,           \* the mount check effect: position, and `cancelled`
  liveSid,         \* history: the handle the server returned last, while the
                   \*          negotiation it belongs to is live; else null
  lastAct,         \* history: the action just taken and what it saw
  uat,             \* AccessProvider uat
  now,             \* AccessProvider now (epoch ms)
  clock,           \* the wall clock, in clock steps after mount
  timerDue,        \* clock step at which the interval fires next, or -1
  reauthOpen,      \* AccessProvider reauth state, lines 171-176
  reauthAllowed,
  reauthMessage,
  reauthLoading,
  reauthTotp,
  reauthPassword,
  seen,            \* reauthOpen / reauthLoading as of the last render, which
                   \* is what the requestReauth and beginReauth closures read
  sub,             \* handleReauthPassword: position, closure values, outcome
  srv,             \* the identity service's reauth negotiation
  memberOf,        \* user?.memberOf ?? [], as a sequence of group names
  origin,          \* history: memberOf as the directory first served it
  cu,              \* CredentialSections: its props status / loading /
                   \* message (the parent's state) and its useState cells
  cuNet,           \* sendCredentialUpdate / WebAuthn / QR calls in flight
  cuRuns,          \* handler runs of the session that reached the network
  pg,              \* the page in view (Profile, SshKeys or PersonCreate): its
                   \* route, its useState cells, and sessionStorage's notice
  pgNet            \* the page's API calls in flight

apiVars  == <<tokenStore, authSessionId, net, liveSid, lastAct>>
provVars == <<status, user, so, mount>>
winVars  == <<uat, now, clock, timerDue>>
reauthVars == <<reauthOpen, reauthAllowed, reauthMessage, reauthLoading,
                reauthTotp, reauthPassword, seen, sub, srv>>
permVars == <<memberOf, origin>>
\* The state of the components outside the providers' own flows.
cuVars == <<cu, cuNet, cuRuns>>
pageVars == <<pg, pgNet>>
extVars == <<permVars, cuVars, pageVars>>
vars == <<apiVars, provVars, winVars, reauthVars, extVars>>
\* What the session/provider actions leave alone, and what the window
\* actions leave alone.
offAuth   == <<winVars, reauthVars, extVars>>
offWindow == <<apiVars, provVars, reauthVars, extVars>>

\* ------------------------------------------------------------ history record
\* The event record written by every action: what ran, the response it
\* handled, the request headers it sent, and the Session Store before it.
Ev(act, op, resp, reqSid, reqTok) ==
  [act |-> act, op |-> op, resp |-> resp, reqSid |-> reqSid, reqTok |-> reqTok,
   preTok |-> tokenStore, preSid |-> authSessionId]

\* ------------------------------------------------------------ api/auth.ts
\* Mutant: the session header is never attached.
authHeaders_Never == NULL

\* authHeaders(): the session header to attach, or undefined.
authHeaders == IF ~Truthy(authSessionId) THEN NULL ELSE authSessionId

\* The Authorization bearer attached when tokenStore.get() is truthy.
bearerHeader == IF Truthy(tokenStore) THEN tokenStore ELSE NULL

\* Mutant: the header value is stored without the truthiness test, so a
\* response without the header clears the handle.
applySessionHeader_Unguarded(r) ==
  authSessionId' = r.sid

\* Lines 33-36 / 154-157: the response's session header, when truthy,
\* replaces the handle; this runs before the response.ok test.
applySessionHeader(r) ==
  authSessionId' = IF Truthy(r.sid) THEN r.sid ELSE authSessionId

\* Mutant: Success stores the credential but leaves the handle live.
handleAuthResponse_KeepHandle(state) ==
  IF state.tag = "success"
    THEN /\ tokenStore' = state.cred
         /\ UNCHANGED authSessionId
    ELSE IF state.tag = "denied"
      THEN /\ authSessionId' = NULL
           /\ UNCHANGED tokenStore
      ELSE UNCHANGED <<tokenStore, authSessionId>>

\* Mutant: Denied is handled like a sign-out and drops the credential too.
handleAuthResponse_DeniedClears(state) ==
  IF state.tag = "success"
    THEN /\ tokenStore' = state.cred
         /\ authSessionId' = NULL
    ELSE IF state.tag = "denied"
      THEN /\ authSessionId' = NULL
           /\ tokenStore' = NULL
      ELSE UNCHANGED <<tokenStore, authSessionId>>

\* Mutant: a Continue drops the handle as a Denied does.
handleAuthResponse_ContinueClears(state) ==
  IF state.tag = "success"
    THEN /\ tokenStore' = state.cred
         /\ authSessionId' = NULL
    ELSE /\ authSessionId' = NULL
         /\ UNCHANGED tokenStore

\* handleAuthResponse, lines 47-55.
handleAuthResponse(state) ==
  IF state.tag = "success"
    THEN /\ tokenStore' = state.cred
         /\ authSessionId' = NULL
    ELSE IF state.tag = "denied"
      THEN /\ authSessionId' = NULL
           /\ UNCHANGED tokenStore
      ELSE UNCHANGED <<tokenStore, authSessionId>>

\* clearAuthToken().
clearAuthToken ==
  /\ tokenStore' = NULL
  /\ authSessionId' = NULL

\* The function whose body a step runs: the seven auth* wrappers only build
\* a payload and call authRequest; reauthBegin has its own copy of the body.
Path(op) == IF op = "reauthBegin" THEN "reauthBegin" ELSE "authRequest"

\* A call in flight: who awaits it, where it is suspended, and (after the
\* header step) the response whose body is still to be read.
Call(owner, phase, path, req, resp) ==
  [owner |-> owner, phase |-> phase, path |-> path, req |-> req, resp |-> resp]
\* What a request carries that the server reads: the session header and the
\* credential step (kind and value). Callers whose server is left open
\* send NoReq.
Req(sid, kind, val) == [sid |-> sid, kind |-> kind, val |-> val]
NoReq == Req(NULL, NULL, NULL)
One(c) == SetToBag({c})
InFlight == BagToSet(net)

\* Replies the identity service may give to a negotiation step.
AllowedLists == {{"password"}, {"totp"}, {"password", "totp"}, {"passkey"}}
AnyContinue == StContinue({"password"})
OkStates == {StSuccess(c) : c \in Creds} \cup {StDenied, AnyContinue}
Replies ==
  {Resp(HttpOk, h, s) : h \in HeaderVals, s \in OkStates}
    \cup {Resp(HttpFail, h, StNone) : h \in HeaderVals}

\* authRequest lines 15-31 / reauthBegin lines 136-152: build the headers
\* from the Session Store and send.
stepSend(owner, op, req) ==
  /\ BagCardinality(net) < MaxCallers
  /\ net' = net (+) One(Call(owner, "sent", Path(op), req, NoResp))
  /\ lastAct' = Ev("send", Endpoint(op), NoResp, authHeaders, bearerHeader)
  /\ UNCHANGED <<tokenStore, authSessionId, liveSid>>

\* fetch() resolves: lines 33-38 (header, then the ok test), up to the next
\* await (response.text() or response.json()).
stepHeaders(c, r) ==
  /\ c \in InFlight
  /\ c.phase = "sent"
  /\ applySessionHeader(r)
  /\ net' = (net (-) One(c))
              (+) One(Call(c.owner, "headers", c.path, c.req,
                          Resp(r.status, NULL, r.state)))
  /\ liveSid' = IF r.sid \in Sids THEN r.sid ELSE liveSid
  /\ lastAct' = Ev("headers", c.path, r, NULL, NULL)
  /\ UNCHANGED tokenStore

\* fetch() rejects (transport-level failure): the step throws, nothing else.
stepReject(c) ==
  /\ c \in InFlight
  /\ c.phase = "sent"
  /\ net' = net (-) One(c)
  /\ lastAct' = Ev("reject", c.path, NoResp, NULL, NULL)
  /\ UNCHANGED <<tokenStore, authSessionId, liveSid>>

\* Non-2xx, lines 38-41: response.text() resolves and the step throws
\* Error(`Request failed (${status}): ${text}`).
stepThrow(c) ==
  /\ c \in InFlight
  /\ c.phase = "headers"
  /\ ~RespIsOk(c.resp)
  /\ net' = net (-) One(c)
  /\ lastAct' = Ev("throw", c.path, c.resp, NULL, NULL)
  /\ UNCHANGED <<tokenStore, authSessionId, liveSid>>

\* 2xx, lines 43-44: response.json() resolves, handleAuthResponse runs and
\* the step returns; `next` is the bag of calls its awaiter starts at once.
stepReturn(c, next) ==
  /\ c \in InFlight
  /\ c.phase = "headers"
  /\ RespIsOk(c.resp)
  /\ handleAuthResponse(c.resp.state)
  /\ net' = (net (-) One(c)) (+) next
  /\ liveSid' = IF c.resp.state.tag \in {"success", "denied"} THEN NULL ELSE liveSid
  /\ lastAct' = Ev("return", c.path, c.resp, NULL, NULL)

\* --------------------------------------------------- AuthContext.tsx 21-85
Profile == "alice"
WhoamiCall(owner) == Call(owner, "whoami", "fetchWhoami", NoReq, NoResp)

\* A caller outside the reauth UI (the login page) runs a step.
CallerSend(op) ==
  /\ stepSend("caller", op, NoReq)
  /\ UNCHANGED <<provVars, offAuth>>

CallerHeaders(r) ==
  /\ \E c \in InFlight : c.owner = "caller" /\ stepHeaders(c, r)
  /\ UNCHANGED <<provVars, offAuth>>

CallerReject ==
  /\ \E c \in InFlight : c.owner = "caller" /\ stepReject(c)
  /\ UNCHANGED <<provVars, offAuth>>

CallerThrow ==
  /\ \E c \in InFlight : c.owner = "caller" /\ stepThrow(c)
  /\ UNCHANGED <<provVars, offAuth>>

\* The step returns Continue or Denied to the caller.
CallerReturn ==
  /\ \E c \in InFlight :
       /\ c.owner = "caller"
       /\ c.resp.state.tag # "success"
       /\ stepReturn(c, EmptyBag)
  /\ UNCHANGED <<provVars, offAuth>>

\* The step returns Success and the caller calls setAuthenticated(), lines
\* 67-70: setStatus('authenticated'), then the await of refreshUser().
CallerSuccess ==
  /\ \E c \in InFlight :
       /\ c.owner = "caller"
       /\ c.resp.state.tag = "success"
       /\ stepReturn(c, One(WhoamiCall("caller")))
  /\ status' = "authenticated"
  /\ UNCHANGED <<user, so, mount>>
  /\ UNCHANGED offAuth

\* refreshUser, lines 25-29: fetchWhoami() resolves (setUser) or rejects.
RefreshUserDone(ok) ==
  /\ WhoamiCall("caller") \in InFlight
  /\ net' = net (-) One(WhoamiCall("caller"))
  /\ user' = IF ok THEN Profile ELSE user
  /\ lastAct' = Ev("refreshUser", NULL, NoResp, NULL, NULL)
  /\ UNCHANGED <<tokenStore, authSessionId, liveSid, status, so, mount>>
  /\ UNCHANGED offAuth

\* The effect of lines 31-61: where check() is ("mounting": not run yet,
\* "fetching": at its await of refreshUser(), "done"), and the `cancelled`
\* flag its cleanup sets.
Mount(phase, cancelled) == [phase |-> phase, cancelled |-> cancelled]

\* The effect runs at mount, lines 32-44: check() up to its return or its
\* await.
CheckStart ==
  /\ mount.phase = "mounting"
  /\ IF ~Truthy(tokenStore)
       THEN /\ status' = "unauthenticated"
            /\ user' = NULL
            /\ mount' = Mount("done", mount.cancelled)
            /\ lastAct' = Ev("check", "noCredential", NoResp, NULL, NULL)
            /\ UNCHANGED net
       ELSE /\ net' = net (+) One(WhoamiCall("check"))
            /\ mount' = Mount("fetching", mount.cancelled)
            /\ lastAct' = Ev("check", "fetch", NoResp, NULL, NULL)
            /\ UNCHANGED <<status, user>>
  /\ UNCHANGED <<tokenStore, authSessionId, liveSid, so, offAuth>>

\* Mutant: the catch block of check() does nothing.
checkSettled_NoCatch(ok) ==
  IF ok
    THEN /\ user' = Profile
         /\ status' = IF mount.cancelled THEN status ELSE "authenticated"
    ELSE UNCHANGED <<status, user>>

\* Lines 25-29 and 45-54: setUser on success whatever `cancelled` is, the
\* status only while not cancelled; the catch block on any failure.
checkSettled(ok) ==
  IF ok
    THEN /\ user' = Profile
         /\ status' = IF mount.cancelled THEN status ELSE "authenticated"
    ELSE IF mount.cancelled
      THEN UNCHANGED <<status, user>>
      ELSE /\ status' = "unauthenticated"
           /\ user' = NULL

\* refreshUser() settles inside check().
CheckDone(ok) ==
  /\ mount.phase = "fetching"
  /\ WhoamiCall("check") \in InFlight
  /\ net' = net (-) One(WhoamiCall("check"))
  /\ mount' = Mount("done", mount.cancelled)
  /\ lastAct' = Ev("check", IF ok THEN "ok" ELSE "failed", NoResp, NULL, NULL)
  /\ checkSettled(ok)
  /\ UNCHANGED <<tokenStore, authSessionId, liveSid, so, offAuth>>

\* The effect's cleanup, lines 58-60: the provider unmounts.
Unmount ==
  /\ mount.phase # "mounting"
  /\ ~mount.cancelled
  /\ mount' = Mount(mount.phase, TRUE)
  /\ lastAct' = Ev("unmount", NULL, NoResp, NULL, NULL)
  /\ UNCHANGED <<tokenStore, authSessionId, net, liveSid, status, user, so,
                 offAuth>>

\* A consumer calls setAuthenticated(), lines 67-70, up to its await.
SetAuthenticated ==
  /\ ~mount.cancelled
  /\ BagCardinality(net) < MaxCallers
  /\ status' = "authenticated"
  /\ net' = net (+) One(WhoamiCall("caller"))
  /\ lastAct' = Ev("setAuthenticated", NULL, NoResp, NULL, NULL)
  /\ UNCHANGED <<tokenStore, authSessionId, liveSid, user, so, mount, offAuth>>

\* The three ways GET /v1/logout can end.
LogoutOutcomes == {"ok", "non2xx", "reject"}

\* signOut, line 73 and logout() lines 169-183: send the logout request.
SignOutStart ==
  /\ so = "idle"
  /\ so' = "sent"
  /\ lastAct' = Ev("send", Endpoint("logout"), NoResp, authHeaders, bearerHeader)
  /\ UNCHANGED <<tokenStore, authSessionId, net, liveSid, status, user, mount>>
  /\ UNCHANGED offAuth

\* Mutant: the cleanup sits after the await instead of in a finally block,
\* so it is skipped when logout() throws.
signOutSettled_NoFinally(outcome) ==
  IF outcome = "ok"
    THEN /\ clearAuthToken
         /\ status' = "unauthenticated"
         /\ user' = NULL
    ELSE UNCHANGED <<tokenStore, authSessionId, status, user>>

\* signOut after logout() settled, lines 72-78: the finally block runs
\* whether logout() resolved or threw.
signOutSettled(outcome) ==
  /\ clearAuthToken
  /\ status' = "unauthenticated"
  /\ user' = NULL

\* How the promise of signOut() settles, lines 72-78: try / finally has no
\* catch, so what logout() throws is thrown on after the cleanup.
signOutResult(outcome) == IF outcome = "ok" THEN "resolved" ELSE "rejected"

\* logout() settles (resolves, throws on non-2xx after response.text(), or
\* fetch rejects) and signOut's finally block runs.
SignOutEnd(outcome) ==
  /\ so = "sent"
  /\ so' = "idle"
  /\ signOutSettled(outcome)
  /\ liveSid' = NULL
  /\ lastAct' = Ev("signOutEnd", outcome, NoResp, NULL, NULL)
  /\ UNCHANGED <<net, mount, offAuth>>

\* ---------------------------------------------- numbers beyond 32 bits
\* Epoch milliseconds (about 1.7 * 10^12) and the 10^12 magnitude test do
\* not fit the checker's integers. A number is <<a, b, c>>, standing for
\* a * 60000^2 + b * 60000 + c with 0 <= b, c < 60000: exact integer
\* arithmetic, as the doubles of the source are exact below 2^53.
MsPerMinute == 60000
NumOf(k) == <<0, k \div MsPerMinute, k % MsPerMinute>>
NumNorm(x) ==
  LET b1 == x[2] + (x[3] \div MsPerMinute)
  IN  <<x[1] + (b1 \div MsPerMinute), b1 % MsPerMinute, x[3] % MsPerMinute>>
NumAdd(x, y) == NumNorm(<<x[1] + y[1], x[2] + y[2], x[3] + y[3]>>)
NumSub(x, y) == NumNorm(<<x[1] - y[1], x[2] - y[2], x[3] - y[3]>>)
NumTimes(x, k) == NumNorm(<<x[1] * k, x[2] * k, x[3] * k>>)
NumLt(x, y) ==
  \/ x[1] < y[1]
  \/ x[1] = y[1] /\ x[2] < y[2]
  \/ x[1] = y[1] /\ x[2] = y[2] /\ x[3] < y[3]
NumMax(x, y) == IF NumLt(x, y) THEN y ELSE x
\* Mutant: the quotient is rounded down.
NumCeilMinutes_Floor(x) ==
  <<x[1] \div MsPerMinute, x[1] % MsPerMinute, x[2]>>
\* Math.ceil(x / 60000) for x >= 0.
NumCeilMinutes(x) ==
  NumAdd(<<x[1] \div MsPerMinute, x[1] % MsPerMinute, x[2]>>,
         NumOf(IF x[3] > 0 THEN 1 ELSE 0))
Zero == NumOf(0)
\* The non-numbers a JavaScript value of this kind can be.
NaN == <<-1, 0, 0>>
NullNum == <<-2, 0, 0>>
Falsy(x) == x \in {NullNum, NaN, Zero}

\* ------------------------------------------- AuthContext.tsx 135-204
\* The 10^12 below which a numeric expiry is taken as epoch seconds.
SecondsCutoff == NumTimes(NumOf(1000000000), 1000)
\* The 60_000 ms safety margin of isReadwrite.
CutoffMarginMs == 60000
\* The period of the recompute interval.
TickMs == 30000

\* UserAuthToken['expiry'] values: null, a number, or a string, the latter
\* given by what Date.parse and Number make of it.
RawNull == [t |-> "null", n |-> NullNum, date |-> NaN, num |-> NaN]
RawNumber(n) == [t |-> "number", n |-> n, date |-> NaN, num |-> NaN]
RawString(date, num) == [t |-> "string", n |-> NullNum, date |-> date, num |-> num]

\* Mutant: a number is taken as epoch milliseconds whatever its size.
parseUatExpiry_AlwaysMillis(expiry) ==
  IF expiry.t = "null" THEN NullNum
  ELSE IF expiry.t = "number" THEN expiry.n
  ELSE IF expiry.t = "string"
    THEN IF expiry.date # NaN THEN expiry.date
         ELSE IF expiry.num # NaN THEN expiry.num
           ELSE NullNum
  ELSE NullNum

\* parseUatExpiry, lines 135-149.
parseUatExpiry(expiry) ==
  IF expiry.t = "null" THEN NullNum
  ELSE IF expiry.t = "number"
    THEN IF NumLt(expiry.n, SecondsCutoff) THEN NumTimes(expiry.n, 1000) ELSE expiry.n
  ELSE IF expiry.t = "string"
    THEN IF expiry.date # NaN THEN expiry.date
         ELSE IF expiry.num # NaN
           THEN IF NumLt(expiry.num, SecondsCutoff)
                  THEN NumTimes(expiry.num, 1000) ELSE expiry.num
           ELSE NullNum
  ELSE NullNum

\* UserAuthToken['purpose']: the string 'readonly' or {readwrite: {expiry}}.
PurposeReadonly == [t |-> "string", expiry |-> RawNull]
PurposeReadwrite(raw) == [t |-> "readwrite", expiry |-> raw]

\* Mutant: the safety margin is left out of the comparison.
isReadwrite_NoMargin(purpose, nowMs) ==
  IF purpose.t # "readwrite" THEN FALSE
  ELSE LET expiry == parseUatExpiry(purpose.expiry)
       IN  IF Falsy(expiry) THEN FALSE
           ELSE NumLt(nowMs, expiry)

isReadwrite(purpose, nowMs) ==
  IF purpose.t # "readwrite" THEN FALSE
  ELSE LET expiry == parseUatExpiry(purpose.expiry)
       IN  IF Falsy(expiry) THEN FALSE
           ELSE LET cutoff == NumAdd(nowMs, NumOf(CutoffMarginMs))
                IN  NumLt(cutoff, expiry)

\* A UAT as held in React state: its purpose, and (history, not read by the
\* code) the instant in epoch milliseconds its expiry denotes, if any.
Uat(purpose, ms) == [purpose |-> purpose, ms |-> ms]
NoUat == Uat([t |-> "none", expiry |-> RawNull], NullNum)

\* ------------------------------------------ time and the tokens served
\* Date.now() at mount, epoch seconds and milliseconds.
T0 == NumTimes(NumOf(1700000000), 1000)
\* The wall clock advances in half tick periods.
ClockStepMs == TickMs \div 2
MaxClock == 6
TimeAt(k) == NumAdd(T0, NumOf(k * ClockStepMs))

\* Expiry instants, as milliseconds after mount.
ExpiryOffsets == {45000, 60000, 60001, 61000, 75000, 105000, 120000, 150000}
\* The three encodings of an instant T0 + d.
AsMillis(d)  == RawNumber(NumAdd(T0, NumOf(d)))
AsSeconds(d) == RawNumber(NumOf(1700000000 + (d \div 1000)))
AsIsoString(d) == RawString(NumAdd(T0, NumOf(d)), NaN)
ServedUats ==
  {Uat(PurposeReadwrite(AsMillis(d)), NumAdd(T0, NumOf(d))) : d \in ExpiryOffsets}
    \cup {Uat(PurposeReadwrite(AsIsoString(d)), NumAdd(T0, NumOf(d))) : d \in ExpiryOffsets}
    \cup {Uat(PurposeReadwrite(AsSeconds(d)), NumAdd(T0, NumOf(d)))
            : d \in {e \in ExpiryOffsets : e % 1000 = 0}}
    \cup {Uat(PurposeReadwrite(RawNull), NullNum),
          Uat(PurposeReadwrite(RawNumber(Zero)), Zero),
          Uat(PurposeReadwrite(RawNumber(SecondsCutoff)), SecondsCutoff),
          Uat(PurposeReadwrite(RawString(NaN, NaN)), NullNum),
          Uat(PurposeReadonly, NullNum)}

\* ------------------------------------------- AccessProvider, lines 188-221
\* rwExpiry, lines 193-196.
rwExpiry ==
  IF uat # NoUat /\ uat.purpose.t = "readwrite"
    THEN parseUatExpiry(uat.purpose.expiry) ELSE NullNum

\* canEdit, lines 188-191.
canEdit == IF uat # NoUat THEN isReadwrite(uat.purpose, now) ELSE FALSE

\* Mutant: the comparison of the expiry with `now` is turned around.
computeWindow_Flipped(expiry, nowMs) ==
  IF ~Falsy(expiry) /\ NumLt(expiry, nowMs)
    THEN NumOf(1)
    ELSE NullNum

\* The expression of lines 197-198 as a function of rwExpiry and now;
\* NullNum stands for null.
computeWindow(expiry, nowMs) ==
  IF ~Falsy(expiry) /\ NumLt(nowMs, expiry)
    THEN NumMax(NumOf(1), NumCeilMinutes(NumSub(expiry, nowMs)))
    ELSE NullNum

\* unlockedMinutes, lines 197-198.
unlockedMinutes == computeWindow(rwExpiry, now)

\* rwExpiry of a token, for the effect's dependency comparison.
rwExpiryOf(u) ==
  IF u # NoUat /\ u.purpose.t = "readwrite"
    THEN parseUatExpiry(u.purpose.expiry) ELSE NullNum

\* setUat(nextToken) / setUat(null), lines 209-217, and the interval effect
\* of lines 200-204, which is torn down and set up when rwExpiry changes.
setUat(u) ==
  /\ uat' = u
  /\ timerDue' =
       IF rwExpiryOf(u) = rwExpiry THEN timerDue
       ELSE IF Falsy(rwExpiryOf(u)) THEN -1
       ELSE clock + (TickMs \div ClockStepMs)
  /\ UNCHANGED <<now, clock>>

\* refreshUat settles with some token, or with null.
SetUat(u) ==
  /\ setUat(u)
  /\ UNCHANGED offWindow

\* Wall-clock time passes.
Advance ==
  /\ clock < MaxClock
  /\ clock' = clock + 1
  /\ UNCHANGED <<uat, now, timerDue, offWindow>>

\* The interval callback, line 202: setNow(Date.now()).
Tick ==
  /\ timerDue # -1
  /\ clock >= timerDue
  /\ now' = TimeAt(clock)
  /\ timerDue' = timerDue + (TickMs \div ClockStepMs)
  /\ UNCHANGED <<uat, clock, offWindow>>

NextWindow ==
  \/ \E u \in ServedUats \cup {NoUat} : SetUat(u)
  \/ Advance
  \/ Tick



\* ------------------------------------- permissions, lines 120-133, 177-186
\* A string is the sequence of its characters.
LowerLetters ==
  <<"a", "b", "c", "d", "e", "f", "g", "h", "i", "j", "k", "l", "m", "n",
    "o", "p", "q", "r", "s", "t", "u", "v", "w", "x", "y", "z">>
UpperLetters ==
  <<"A", "B", "C", "D", "E", "F", "G", "H", "I", "J", "K", "L", "M", "N",
    "O", "P", "Q", "R", "S", "T", "U", "V", "W", "X", "Y", "Z">>

\* String.prototype.toLowerCase / toUpperCase on one character.
toLowerChar(c) ==
  IF \E i \in 1..Len(UpperLetters) : UpperLetters[i] = c
    THEN LowerLetters[CHOOSE i \in 1..Len(UpperLetters) : UpperLetters[i] = c]
    ELSE c
toUpperChar(c) ==
  IF \E i \in 1..Len(LowerLetters) : LowerLetters[i] = c
    THEN UpperLetters[CHOOSE i \in 1..Len(LowerLetters) : LowerLetters[i] = c]
    ELSE c
toLowerCase(str) == [i \in 1..Len(str) |-> toLowerChar(str[i])]

\* str.split('@')[0]: what precedes the first '@', or all of str.
splitAtFirst(str) ==
  LET ats == {i \in 1..Len(str) : str[i] = "@"}
  IN  IF ats = {} THEN str
      ELSE SubSeq(str, 1, (CHOOSE i \in ats : \A j \in ats : i <= j) - 1)

\* The group names of lines 120-122.
IdmAllPersons ==
  <<"i", "d", "m", "_", "a", "l", "l", "_", "p", "e", "r", "s", "o", "n",
    "s">>
IdmPeopleSelfNameWrite ==
  <<"i", "d", "m", "_", "p", "e", "o", "p", "l", "e", "_", "s", "e", "l",
    "f", "_", "n", "a", "m", "e", "_", "w", "r", "i", "t", "e">>
IdmPeopleSelfMailWrite ==
  <<"i", "d", "m", "_", "p", "e", "o", "p", "l", "e", "_", "s", "e", "l",
    "f", "_", "m", "a", "i", "l", "_", "w", "r", "i", "t", "e">>
SELF_NAME_WRITE_GROUPS == {IdmAllPersons, IdmPeopleSelfNameWrite}
SELF_MAIL_WRITE_GROUPS == {IdmPeopleSelfMailWrite}
SELF_WRITE_GROUPS == {IdmAllPersons}

\* Mutant: the name is cut at the '@' but its case is kept.
normalizeGroupName_KeepCase(group) == splitAtFirst(group)

\* normalizeGroupName, lines 126-128.
normalizeGroupName(group) == toLowerCase(splitAtFirst(group))

\* hasAnyGroup, lines 130-133.
hasAnyGroup(members, groups) ==
  LET groupSet == {toLowerCase(group) : group \in groups}
  IN  \E i \in 1..Len(members) : normalizeGroupName(members[i]) \in groupSet

\* permissions, lines 178-186.
permissions ==
  [nameAllowed      |-> hasAnyGroup(memberOf, SELF_NAME_WRITE_GROUPS),
   emailAllowed     |-> hasAnyGroup(memberOf, SELF_MAIL_WRITE_GROUPS),
   selfWriteAllowed |-> hasAnyGroup(memberOf, SELF_WRITE_GROUPS)]

\* ------------------------------------------ the directory's group names
\* Other names an identity can be a member of: an unrelated group, and
\* names that only start with, or only end with, an allow-listed one.
IdmAdmins ==
  <<"i", "d", "m", "_", "a", "d", "m", "i", "n", "s">>
IdmAllPersonsExt ==
  <<"i", "d", "m", "_", "a", "l", "l", "_", "p", "e", "r", "s", "o", "n",
    "s", "_", "e", "x", "t">>
XIdmAllPersons ==
  <<"x", "_", "i", "d", "m", "_", "a", "l", "l", "_", "p", "e", "r", "s",
    "o", "n", "s">>
GroupNames ==
  {IdmAllPersons, IdmPeopleSelfNameWrite, IdmPeopleSelfMailWrite,
   IdmAdmins, IdmAllPersonsExt, XIdmAllPersons}
\* The '@domain' suffixes the directory appends.
Domains ==
  {<<"@", "i", "d", "m", ".", "e", "x", "a", "m", "p", "l", "e">>, <<"@",
    "I", "D", "M">>}
\* The memberships an identity can have: up to two groups.
Memberships ==
  {<<>>} \cup {<<g>> : g \in GroupNames} \cup {<<g, h>> : g, h \in GroupNames}
\* The characters of a name whose case may get changed: the leading ones.
MaxCasePos == 2

HasDomain(str) == \E i \in 1..Len(str) : str[i] = "@"

\* The directory serves the same membership with one letter of an entry
\* in the other case.
ChangeCase(i, pos) ==
  /\ i \in 1..Len(memberOf)
  /\ pos \in 1..MaxCasePos
  /\ pos <= Len(memberOf[i])
  /\ LET c == memberOf[i][pos]
         d == IF toLowerChar(c) = c THEN toUpperChar(c) ELSE toLowerChar(c)
     IN  memberOf' = [memberOf EXCEPT ![i][pos] = d]
  /\ UNCHANGED <<origin, apiVars, provVars, winVars, reauthVars, cuVars,
                 pageVars>>

\* ... with an '@domain' suffix on an entry that had none.
AddDomain(i, dom) ==
  /\ i \in 1..Len(memberOf)
  /\ ~HasDomain(memberOf[i])
  /\ memberOf' = [memberOf EXCEPT ![i] = memberOf[i] \o dom]
  /\ UNCHANGED <<origin, apiVars, provVars, winVars, reauthVars, cuVars,
                 pageVars>>

\* ... with the '@domain' suffix of an entry taken off.
RemoveDomain(i) ==
  /\ i \in 1..Len(memberOf)
  /\ HasDomain(memberOf[i])
  /\ memberOf' = [memberOf EXCEPT ![i] = splitAtFirst(memberOf[i])]
  /\ UNCHANGED <<origin, apiVars, provVars, winVars, reauthVars, cuVars,
                 pageVars>>

NextPerms ==
  \/ \E i \in DOMAIN memberOf, pos \in 1..MaxCasePos : ChangeCase(i, pos)
  \/ \E i \in DOMAIN memberOf, dom \in Domains : AddDomain(i, dom)
  \/ \E i \in DOMAIN memberOf : RemoveDomain(i)

\* ------------------------------------- the identity service, for reauth
\* The service of this model requires both factors, in the order it picks:
\* each Continue advertises a non-empty set of the factors still missing.
Factors == {"password", "totp"}
Other(f) == IF f = "password" THEN "totp" ELSE "password"
\* What the user can have typed into a field: nothing, the right value, a
\* wrong one.
Inputs == {"", "good", "bad"}
Adverts(need) == (SUBSET need) \ {{}}
SrvIdle == [need |-> {}, adv |-> {}, sid |-> NULL]
IssuedCred == "tokB"
\* The session identifiers the service hands out for a reauth.
ReauthSids == {"sid1"}

\* The pairs <<response, next service state>> the service may answer a
\* request with. Any request may also fail with a non-2xx status. A reauth
\* is answered with a negotiation for password and totp, or one for a
\* passkey alone, or settled at once.
ServerReplies(c) ==
  {<<Resp(HttpFail, NULL, StNone), srv>>} \cup
  IF c.path = "reauthBegin"
    THEN {<<Resp(HttpOk, s, StContinue(a)), [need |-> Factors, adv |-> a, sid |-> s]>>
            : s \in ReauthSids, a \in Adverts(Factors)}
         \cup {<<Resp(HttpOk, s, StContinue({"passkey"})),
                 [need |-> {"passkey"}, adv |-> {"passkey"}, sid |-> s]>>
                 : s \in ReauthSids}
         \cup {<<Resp(HttpOk, NULL, StSuccess(IssuedCred)), SrvIdle>>,
                <<Resp(HttpOk, NULL, StDenied), SrvIdle>>}
  ELSE IF srv.need = {} \/ c.req.sid # srv.sid
    THEN {}
  ELSE IF c.req.kind \notin srv.adv \/ c.req.val # "good"
    THEN {<<Resp(HttpOk, srv.sid, StDenied), SrvIdle>>}
  ELSE IF srv.need \ {c.req.kind} = {}
    THEN {<<Resp(HttpOk, srv.sid, StSuccess(IssuedCred)), SrvIdle>>}
  ELSE {<<Resp(HttpOk, srv.sid, StContinue(a)),
          [srv EXCEPT !.need = srv.need \ {c.req.kind}, !.adv = a]>>
          : a \in Adverts(srv.need \ {c.req.kind})}

\* ------------------------------------------- AccessProvider, lines 223-344
\* The token fetchUserAuthToken serves after a reauth.
FetchedUat == Uat(PurposeReadwrite(AsSeconds(120000)), NumAdd(T0, NumOf(120000)))
UatCall(owner) == Call(owner, "uat", "fetchUserAuthToken", NoReq, NoResp)

\* handleReauthPassword's position: idle, or awaiting its first or second
\* credential step, or the calls after a Success; and, while it runs, the
\* reauthPassword and reauthTotp its closure holds. `fresh` is a history
\* field: the service had accepted no factor of the negotiation when the
\* handler started.
Sub(phase, first, pw, totp, fresh) ==
  [phase |-> phase, first |-> first, pw |-> pw, totp |-> totp, fresh |-> fresh]
SubIdle == Sub("idle", NULL, "", "", FALSE)

\* The event record of an action that leaves the Session Store alone.
uiAct(name) ==
  /\ lastAct' = Ev("ui", name, NoResp, NULL, NULL)
  /\ UNCHANGED <<tokenStore, authSessionId, net, liveSid>>

\* React has re-rendered since the last state change: closures are current.
Rendered == seen = [open |-> reauthOpen, loading |-> reauthLoading]

\* A render commits: the callbacks are re-created over the current state.
Render ==
  /\ ~Rendered
  /\ seen' = [open |-> reauthOpen, loading |-> reauthLoading]
  /\ uiAct(NULL)
  /\ UNCHANGED <<reauthOpen, reauthAllowed, reauthMessage, reauthLoading,
                 reauthTotp, reauthPassword, sub, srv, provVars, winVars, extVars>>

\* requestReauth, lines 341-344, and beginReauth up to its await, lines
\* 223-233. Both read reauthOpen / reauthLoading from their closures.
beginReauth ==
  /\ ~(seen.open \/ seen.loading)
  /\ status = "authenticated"
  /\ ~seen.loading
  /\ reauthOpen' = TRUE
  /\ reauthLoading' = TRUE
  /\ reauthMessage' = NULL
  /\ reauthAllowed' = {}
  /\ reauthPassword' = ""
  /\ reauthTotp' = ""
  /\ stepSend("begin", "reauthBegin", Req(authHeaders, NULL, NULL))

\* requestReauth() called where the caller changes nothing else.
requestReauth ==
  /\ beginReauth
  /\ UNCHANGED <<seen, sub, srv, provVars, winVars, extVars>>

\* A consumer calls requestReauth() from a render that is current.
RequestReauth ==
  /\ Rendered
  /\ requestReauth

\* A consumer calls requestReauth() again before the state written by an
\* earlier call has been rendered: the closures still hold the old values.
RequestReauthStale ==
  /\ ~Rendered
  /\ requestReauth

\* A response reaches a step of the reauth UI (owner: "begin" or "submit").
ReauthHeaders(owner) ==
  /\ Rendered
  /\ \E c \in InFlight :
       /\ c.owner = owner
       /\ c.phase = "sent"
       /\ \E p \in ServerReplies(c) :
            /\ stepHeaders(c, p[1])
            /\ srv' = p[2]
  /\ UNCHANGED <<reauthOpen, reauthAllowed, reauthMessage, reauthLoading,
                 reauthTotp, reauthPassword, seen, sub, provVars, winVars, extVars>>

\* Mutant: the handlers have a catch block but no finally block.
caught_NoFinally(owner, msg) ==
  /\ reauthMessage' = msg
  /\ sub' = IF owner = "submit" THEN SubIdle ELSE sub
  /\ UNCHANGED <<reauthOpen, reauthAllowed, reauthLoading, reauthTotp,
                 reauthPassword, seen, srv, provVars, winVars, extVars>>

\* The catch and finally blocks shared by the handlers: the error's message
\* is shown and reauthLoading is reset.
caught(owner, msg) ==
  /\ reauthMessage' = msg
  /\ reauthLoading' = FALSE
  /\ sub' = IF owner = "submit" THEN SubIdle ELSE sub
  /\ UNCHANGED <<reauthOpen, reauthAllowed, reauthTotp, reauthPassword, seen,
                 srv, provVars, winVars, extVars>>

\* fetch() rejects inside a step of the reauth UI.
ReauthReject(owner) ==
  /\ Rendered
  /\ \E c \in InFlight : c.owner = owner /\ stepReject(c)
  /\ caught(owner, "error: network")

\* A step of the reauth UI throws on a non-2xx response.
ReauthThrow(owner) ==
  /\ Rendered
  /\ \E c \in InFlight : c.owner = owner /\ stepThrow(c)
  /\ caught(owner, "error: request failed")

\* beginReauth after reauthBegin() returned Continue or Denied, 240-249.
BeginReturn ==
  /\ Rendered
  /\ \E c \in InFlight :
       /\ c.owner = "begin"
       /\ c.phase = "headers"
       /\ c.resp.state.tag # "success"
       /\ stepReturn(c, EmptyBag)
       /\ IF c.resp.state.tag = "continue"
            THEN /\ reauthAllowed' = c.resp.state.allowed
                 /\ UNCHANGED reauthMessage
            ELSE /\ reauthMessage' = "reauthStartFailed"
                 /\ UNCHANGED reauthAllowed
  /\ reauthLoading' = FALSE
  /\ UNCHANGED <<reauthOpen, reauthTotp, reauthPassword, seen, sub, srv,
                 provVars, winVars, extVars>>

\* Mutant: after a Success the handler goes straight to refreshUat().
afterSuccess_SkipProfile(owner) == One(UatCall(owner))

\* What a handler awaits first after a Success, lines 235 / 297 / 326 and
\* 67-69: setAuthenticated(), that is refreshUser().
afterSuccess(owner) == One(WhoamiCall(owner))

\* A step returned Success: setAuthenticated() runs up to its await of
\* refreshUser() (lines 234-235 / 296-297 / 325-326, 67-69).
ReauthSuccess(owner) ==
  /\ Rendered
  /\ \E c \in InFlight :
       /\ c.owner = owner
       /\ c.phase = "headers"
       /\ c.resp.state.tag = "success"
       /\ stepReturn(c, afterSuccess(owner))
  /\ status' = "authenticated"
  /\ sub' = IF owner = "submit"
              THEN Sub("after", NULL, sub.pw, sub.totp, sub.fresh) ELSE sub
  /\ UNCHANGED <<user, so, mount, reauthOpen, reauthAllowed, reauthMessage,
                 reauthLoading, reauthTotp, reauthPassword, seen, srv, winVars, extVars>>

\* refreshUser() settled inside setAuthenticated(): on success refreshUat()
\* starts (line 236 / 298); a rejection reaches the handler's catch.
ReauthWhoamiDone(owner, ok) ==
  /\ Rendered
  /\ WhoamiCall(owner) \in InFlight
  /\ lastAct' = Ev("refreshUser", NULL, NoResp, NULL, NULL)
  /\ UNCHANGED <<tokenStore, authSessionId, liveSid>>
  /\ IF ok
       THEN /\ user' = Profile
            /\ net' = (net (-) One(WhoamiCall(owner))) (+) One(UatCall(owner))
            /\ UNCHANGED <<status, so, mount, reauthVars, winVars, extVars>>
       ELSE /\ net' = net (-) One(WhoamiCall(owner))
            /\ reauthMessage' = "error: request failed"
            /\ reauthLoading' = FALSE
            /\ sub' = IF owner = "submit" THEN SubIdle ELSE sub
            /\ UNCHANGED <<reauthOpen, reauthAllowed, reauthTotp, reauthPassword,
                           seen, srv, provVars, winVars, extVars>>

\* refreshUat() settled (it catches its own failure and stores null), then
\* lines 237 / 299-301 and the finally block.
ReauthUatDone(owner, u) ==
  /\ Rendered
  /\ UatCall(owner) \in InFlight
  /\ net' = net (-) One(UatCall(owner))
  /\ lastAct' = Ev("refreshUat", NULL, NoResp, NULL, NULL)
  /\ UNCHANGED <<tokenStore, authSessionId, liveSid>>
  /\ setUat(u)
  /\ reauthOpen' = FALSE
  /\ reauthLoading' = FALSE
  /\ IF owner = "submit"
       THEN /\ reauthPassword' = ""
            /\ reauthTotp' = ""
            /\ sub' = SubIdle
       ELSE UNCHANGED <<reauthPassword, reauthTotp, sub>>
  /\ UNCHANGED <<reauthAllowed, reauthMessage, seen, srv, provVars, extVars>>

\* The inputs of the reauth form, lines 387-406: a field is there only
\* while its mechanism is in reauthAllowed.
SetReauthPassword(v) ==
  /\ Rendered
  /\ reauthOpen
  /\ "password" \in reauthAllowed
  /\ v # reauthPassword
  /\ reauthPassword' = v
  /\ uiAct(NULL)
  /\ UNCHANGED <<reauthOpen, reauthAllowed, reauthMessage, reauthLoading,
                 reauthTotp, seen, sub, srv, provVars, winVars, extVars>>

SetReauthTotp(v) ==
  /\ Rendered
  /\ reauthOpen
  /\ "totp" \in reauthAllowed
  /\ v # reauthTotp
  /\ reauthTotp' = v
  /\ uiAct(NULL)
  /\ UNCHANGED <<reauthOpen, reauthAllowed, reauthMessage, reauthLoading,
                 reauthPassword, seen, sub, srv, provVars, winVars, extVars>>

\* The cancel button, lines 420-427.
CancelReauth ==
  /\ Rendered
  /\ reauthOpen
  /\ ~reauthLoading
  /\ reauthOpen' = FALSE
  /\ uiAct(NULL)
  /\ UNCHANGED <<reauthAllowed, reauthMessage, reauthLoading, reauthTotp,
                 reauthPassword, seen, sub, srv, provVars, winVars, extVars>>

\* The step function and payload for a factor: authPassword(reauthPassword)
\* or authTotp(Number(reauthTotp)).
FactorOp(f) == IF f = "totp" THEN "authTotp" ELSE "authPassword"
FactorReq(f, pw, totp) == Req(authHeaders, f, IF f = "totp" THEN totp ELSE pw)

\* Lines 257-266: the factor the form still lacks, or NULL.
missingFactor(allowed, pw, totp) ==
  IF "totp" \in allowed /\ totp = "" THEN "totp"
  ELSE IF "password" \in allowed /\ pw = "" THEN "password"
  ELSE NULL

\* Lines 268 / 281-282: the factor submitted first.
firstFactor(allowed) == IF "totp" \in allowed THEN "totp" ELSE "password"

\* Mutant: the handler stops after the first credential step.
secondFactor_None(first, continued) == NULL

\* Lines 272 / 285: after a Continue, the factor to submit next, or NULL.
secondFactor(first, continued) ==
  IF Other(first) \in continued THEN Other(first) ELSE NULL

RequiredMessage(f) ==
  IF f = "totp" THEN "reauthTotpRequired" ELSE "reauthPasswordRequired"

\* The submit button of the reauth form: handleReauthPassword up to its
\* first await or early return, lines 252-282.
SubmitReauth ==
  /\ Rendered
  /\ reauthOpen
  /\ ~reauthLoading
  /\ reauthAllowed \cap Factors # {}
  /\ sub.phase = "idle"
  /\ LET miss == missingFactor(reauthAllowed, reauthPassword, reauthTotp)
         first == firstFactor(reauthAllowed)
     IN  IF miss # NULL
           THEN /\ reauthMessage' = RequiredMessage(miss)
                /\ reauthLoading' = FALSE
                /\ sub' = SubIdle
                /\ uiAct(NULL)
           ELSE /\ reauthMessage' = NULL
                /\ reauthLoading' = TRUE
                /\ sub' = Sub("first", first, reauthPassword, reauthTotp,
                                srv.need = Factors)
                /\ stepSend("submit", FactorOp(first),
                            FactorReq(first, reauthPassword, reauthTotp))
  /\ UNCHANGED <<reauthOpen, reauthAllowed, reauthTotp, reauthPassword, seen,
                 srv, provVars, winVars, extVars>>

\* handleReauthPassword after a credential step returned Continue or
\* Denied, lines 270-280 / 283-293 and 302-309.
SubmitReturn ==
  /\ Rendered
  /\ \E c \in InFlight :
       /\ c.owner = "submit"
       /\ c.phase = "headers"
       /\ c.resp.state.tag # "success"
       /\ LET st == c.resp.state
              next == IF sub.phase = "first" /\ st.tag = "continue"
                        THEN secondFactor(sub.first, st.allowed) ELSE NULL
              have == IF next = "totp" THEN sub.totp ELSE sub.pw
          IN  /\ reauthAllowed' =
                   IF sub.phase = "first" /\ st.tag = "continue"
                     THEN st.allowed ELSE reauthAllowed
              /\ IF next # NULL /\ have = ""
                   THEN /\ stepReturn(c, EmptyBag)
                        /\ reauthMessage' = RequiredMessage(next)
                        /\ reauthLoading' = FALSE
                        /\ sub' = SubIdle
                 ELSE IF next # NULL
                   THEN /\ stepReturn(c, One(Call("submit", "sent", Path(FactorOp(next)),
                                                  FactorReq(next, sub.pw, sub.totp), NoResp)))
                        /\ sub' = Sub("second", sub.first, sub.pw, sub.totp, sub.fresh)
                        /\ UNCHANGED <<reauthMessage, reauthLoading>>
                 ELSE /\ stepReturn(c, EmptyBag)
                      /\ reauthMessage' = "reauthIncomplete"
                      /\ reauthLoading' = FALSE
                      /\ sub' = SubIdle
  /\ UNCHANGED <<reauthOpen, reauthTotp, reauthPassword, seen, srv,
                 provVars, winVars, extVars>>

\* The passkey button: handleReauthPasskey up to its await of
\* performPasskeyRequest(), lines 312-323. The button is there only while
\* a passkey is in reauthAllowed.
PasskeyStart ==
  /\ Rendered
  /\ reauthOpen
  /\ ~reauthLoading
  /\ "passkey" \in reauthAllowed
  /\ BagCardinality(net) < MaxCallers
  /\ reauthLoading' = TRUE
  /\ reauthMessage' = NULL
  /\ net' = net (+) One(Call("passkey", "webauthn", "performPasskeyRequest",
                             NoReq, NoResp))
  /\ lastAct' = Ev("ui", NULL, NoResp, NULL, NULL)
  /\ UNCHANGED <<tokenStore, authSessionId, liveSid>>
  /\ UNCHANGED <<reauthOpen, reauthAllowed, reauthTotp, reauthPassword, seen,
                 sub, srv, provVars, winVars, extVars>>

\* performPasskeyRequest() resolves with an assertion the service will or
\* will not accept, and authPasskey(credential) is sent, line 324.
PasskeyCredential(val) ==
  /\ Rendered
  /\ \E c \in InFlight :
       /\ c.owner = "passkey"
       /\ c.phase = "webauthn"
       /\ net' = (net (-) One(c))
                   (+) One(Call("passkey", "sent", Path("authPasskey"),
                               Req(authHeaders, "passkey", val), NoResp))
  /\ lastAct' = Ev("send", Endpoint("authPasskey"), NoResp, authHeaders, bearerHeader)
  /\ UNCHANGED <<tokenStore, authSessionId, liveSid>>
  /\ UNCHANGED <<reauthVars, provVars, winVars, extVars>>

\* performPasskeyRequest() rejects (the user dismisses the prompt).
PasskeyAbort ==
  /\ Rendered
  /\ \E c \in InFlight :
       /\ c.owner = "passkey"
       /\ c.phase = "webauthn"
       /\ net' = net (-) One(c)
  /\ lastAct' = Ev("reject", "performPasskeyRequest", NoResp, NULL, NULL)
  /\ UNCHANGED <<tokenStore, authSessionId, liveSid>>
  /\ caught("passkey", "error: passkey request")

\* handleReauthPasskey after authPasskey() returned Continue or Denied,
\* lines 329-331 and 336-338.
PasskeyReturn ==
  /\ Rendered
  /\ \E c \in InFlight :
       /\ c.owner = "passkey"
       /\ c.phase = "headers"
       /\ c.resp.state.tag # "success"
       /\ stepReturn(c, EmptyBag)
  /\ reauthMessage' = "reauthPasskeyFailed"
  /\ reauthLoading' = FALSE
  /\ UNCHANGED <<reauthOpen, reauthAllowed, reauthTotp, reauthPassword, seen,
                 sub, srv, provVars, winVars, extVars>>

\* ---------------------------------------------- credential update session
\* src/src/components/CredentialSections.tsx, mounted by pages/Profile.tsx
\* with the parent's credStatus / credLoading / credMessage as its props.
\* Text typed into a field that the code trims is a sequence of characters.
offCred == <<apiVars, provVars, winVars, reauthVars, permVars, pageVars>>

MfaRequired == "MfaRequired"
WarningSets == {{}, {MfaRequired}}

\* CURegState, as a record of uniform shape.
Reg(tag, secret, name) == [tag |-> tag, secret |-> secret, name |-> name]
RegNone               == Reg("None", NULL, <<>>)
RegPasskey(ch)        == Reg("Passkey", ch, <<>>)
RegTotpCheck(s)       == Reg("TotpCheck", s, <<>>)
RegTotpInvalidSha1    == Reg("TotpInvalidSha1", NULL, <<>>)
RegTotpTryAgain       == Reg("TotpTryAgain", NULL, <<>>)
RegTotpNameTryAgain(n) == Reg("TotpNameTryAgain", NULL, n)

\* CUStatus: the warnings and the sub-enrollment in progress.
CUStatus(w, m) == [warnings |-> w, mfaregstate |-> m]

\* TOTP secrets the service may generate.
Secrets == {"s1"}
\* Passkey challenges the service may issue.
Challenges == {"ch1", "ch2"}
\* What the user may type.
Passwords == {"", "pwA"}
Labels == {<<>>, <<" ">>, <<"k", " ">>}
Codes == {<<>>, <<"7">>}

RECURSIVE trimStart(_)
trimStart(s) == IF s # <<>> /\ Head(s) = " " THEN trimStart(Tail(s)) ELSE s
RECURSIVE trimEnd(_)
trimEnd(s) ==
  IF s # <<>> /\ s[Len(s)] = " " THEN trimEnd(SubSeq(s, 1, Len(s) - 1)) ELSE s
\* String.prototype.trim
trim(s) == trimEnd(trimStart(s))

extractPasskeyChallenge(state) ==
  IF state.tag = "Passkey" THEN state.secret ELSE NULL
\* The registration the authenticator makes for a challenge, one per
\* challenge; no registration is null.
performPasskeyCreation(challenge) ==
  IF challenge = "ch1" THEN "registration1" ELSE "registration2"
NoRegistration == NULL
extractTotpSecret(state) ==
  IF state.tag = "TotpCheck" THEN state.secret ELSE NULL

\* The provisioning payload derived from a secret; no payload has no uri.
buildTotpPayload(secret) == [secret |-> secret, uri |-> <<"otpauth", secret>>]
NoPayload == [secret |-> NULL, uri |-> <<>>]
\* QRCode.toDataURL(uri); no image is the empty value.
toDataURL(uri) == <<"png">> \o uri
NoQr == <<>>

\* The component just mounted on a session whose status is st.
CuMounted(st) ==
  [status |-> st, loading |-> FALSE, message |-> NULL,
   password |-> "", passwordConfirm |-> "", showPasswordForm |-> FALSE,
   passkeyLabel |-> <<>>, passkeyLabelOpen |-> FALSE,
   pendingPasskey |-> NoRegistration,
   totpPayload |-> NoPayload, totpQr |-> NoQr, totpLabel |-> <<>>,
   totpCode |-> <<>>, totpError |-> NULL, totpModalOpen |-> FALSE,
   totpSha1Warning |-> FALSE, passwordNotice |-> NULL, totpCancelled |-> FALSE]

\* A call in flight: the request, the handler awaiting it, what was sent.
\* `payload` is the totpPayload of the render the handler was created in;
\* `passkey` is the challenge or the registration handed over.
CuCall(op, owner, pw, label, code, payload) ==
  [op |-> op, owner |-> owner, pw |-> pw, label |-> label, code |-> code,
   payload |-> payload, passkey |-> NULL]
PasskeyCall(op, owner, label, passkey) ==
  [CuCall(op, owner, "", label, <<>>, NoPayload) EXCEPT !.passkey = passkey]
Bare(op, owner) == CuCall(op, owner, "", <<>>, <<>>, NoPayload)
QrCall(uri) == CuCall("qr", "buildQr", "", uri, <<>>, NoPayload)
\* The sendCredentialUpdate calls in flight.
\* An async handler has one run at a time: no call of its is in flight.
Idle(owner) == \A c \in BagToSet(cuNet) : c.owner # owner
\* The handler run that is starting sends its request.
Sends(owner, call) ==
  /\ Idle(owner)
  /\ cuRuns < MaxRuns
  /\ cuRuns' = cuRuns + 1
  /\ cuNet' = cuNet (+) One(call)
\* The two modals render over the page inside a `modal-backdrop`: while one
\* is up, the controls of the page under it are out of reach.
PageInReach == ~cu.totpModalOpen /\ ~cu.passkeyLabelOpen

\* What sendCredentialUpdate resolves to, or that it threw.
CuOk(st) == [ok |-> TRUE, status |-> st]
CuThrow  == [ok |-> FALSE, status |-> CUStatus({}, RegNone)]

\* The statuses the service may answer a request with.
CuAnswers(c) ==
  IF c.op = "password" THEN {CUStatus(w, RegNone) : w \in WarningSets}
  ELSE IF c.op = "totpgenerate"
    THEN {CUStatus({MfaRequired}, RegTotpCheck(s)) : s \in Secrets}
         \cup {CUStatus({MfaRequired}, RegNone)}
  ELSE IF c.op \in {"totpverify", "totpacceptsha1"}
    THEN {CUStatus({}, RegNone), CUStatus({MfaRequired}, RegTotpTryAgain),
          CUStatus({MfaRequired}, RegTotpInvalidSha1),
          CUStatus({MfaRequired}, RegTotpNameTryAgain(c.label)),
          CUStatus({MfaRequired}, RegTotpCheck("s1"))}
  ELSE IF c.op = "cancelmfareg" THEN {CUStatus({MfaRequired}, RegNone)}
  ELSE IF c.op = "passkeyinit"
    THEN {CUStatus({}, RegPasskey(ch)) : ch \in Challenges}
         \cup {CUStatus({}, RegNone)}
  ELSE {CUStatus({}, RegNone)}
CuReplies(c) == {CuOk(st) : st \in CuAnswers(c)} \cup {CuThrow}

\* The effect on [totpPayload?.uri]: a changed uri starts a QR build. Two
\* pending builds of one uri are told apart by nothing; they count as one.
buildQr(oldUri, newUri) ==
  IF newUri # oldUri /\ newUri # <<>> /\ ~BagIn(QrCall(newUri), cuNet)
    THEN One(QrCall(newUri)) ELSE EmptyBag

\* ---- password
SetPassword(v) ==
  /\ PageInReach
  /\ cu.showPasswordForm
  /\ cu' = [cu EXCEPT !.password = v]
  /\ UNCHANGED <<cuNet, cuRuns, offCred>>

SetPasswordConfirm(v) ==
  /\ PageInReach
  /\ cu.showPasswordForm
  /\ cu' = [cu EXCEPT !.passwordConfirm = v]
  /\ UNCHANGED <<cuNet, cuRuns, offCred>>

ToggleShowPasswordForm ==
  /\ PageInReach
  /\ ~cu.loading
  /\ cu' = [cu EXCEPT !.showPasswordForm = ~cu.showPasswordForm]
  /\ UNCHANGED <<cuNet, cuRuns, offCred>>

\* submitPasswordChange's check of its two fields.
passwordRejected_EmptyOnly(pw, confirm) == pw = ""
passwordRejected(pw, confirm) == pw = "" \/ pw # confirm

\* submitPasswordChange up to its await.
SubmitPasswordChange ==
  /\ PageInReach
  /\ cu.showPasswordForm
  /\ ~cu.loading
  /\ IF passwordRejected(cu.password, cu.passwordConfirm)
       THEN /\ cu' = [cu EXCEPT !.message = "messagePasswordMismatch"]
            /\ UNCHANGED <<cuNet, cuRuns>>
       ELSE /\ cu' = [cu EXCEPT !.loading = TRUE, !.message = NULL,
                                !.totpCancelled = FALSE]
            /\ Sends("submitPasswordChange", CuCall("password", "submitPasswordChange",
                                             cu.password, <<>>, <<>>,
                                             cu.totpPayload))
  /\ UNCHANGED offCred

\* beginTotpEnrollment up to its await, as run by a handler whose render
\* saw the payload `seenPayload`.
totpBegun(c, seenPayload) ==
  [c EXCEPT !.totpError = IF seenPayload = NoPayload
                            THEN "messageTotpLoading" ELSE NULL,
            !.totpSha1Warning = FALSE, !.totpLabel = <<>>, !.totpCode = <<>>,
            !.totpModalOpen = TRUE, !.totpCancelled = FALSE,
            !.loading = TRUE]

\* Whether the staged password's status asks for a second factor.
showTotpPrompt_Never(st) == FALSE
showTotpPrompt(st) == MfaRequired \in st.warnings

\* submitPasswordChange from its await on: the catch, or the staging and,
\* when the status warns MfaRequired, beginTotpEnrollment up to its await.
PasswordAnswered(c, reply) ==
  /\ BagIn(c, cuNet)
  /\ c.op = "password"
  /\ reply \in CuReplies(c)
  /\ IF ~reply.ok
       THEN /\ cu' = [cu EXCEPT !.message = "error.message", !.loading = FALSE]
            /\ cuNet' = cuNet (-) One(c)
       ELSE LET staged == [cu EXCEPT !.status = reply.status,
                                     !.password = "", !.passwordConfirm = "",
                                     !.showPasswordForm = FALSE,
                                     !.passwordNotice = "messagePasswordSetNotice",
                                     !.message = "messagePasswordStaged"]
            IN  IF showTotpPrompt(reply.status)
                  THEN /\ cu' = totpBegun(staged, c.payload)
                       /\ cuNet' = (cuNet (-) One(c))
                                   (+) One(Bare("totpgenerate", c.owner))
                  ELSE /\ cu' = [staged EXCEPT !.loading = FALSE]
                       /\ cuNet' = cuNet (-) One(c)
  /\ UNCHANGED <<cuRuns, offCred>>

\* ---- TOTP
\* The retry link and the enroll button of the password form.
BeginTotpEnrollment ==
  /\ PageInReach
  /\ ~cu.loading
  /\ cu.totpCancelled \/ (cu.showPasswordForm /\ showTotpPrompt(cu.status))
  /\ cu' = totpBegun(cu, cu.totpPayload)
  /\ Sends("beginTotpEnrollment", Bare("totpgenerate", "beginTotpEnrollment"))
  /\ UNCHANGED offCred

\* beginTotpEnrollment from its await on; its caller's finally, if any,
\* clears loading once more.
TotpGenerated(c, reply) ==
  /\ BagIn(c, cuNet)
  /\ c.op = "totpgenerate"
  /\ reply \in CuReplies(c)
  /\ LET secret == extractTotpSecret(reply.status.mfaregstate)
     IN  IF ~reply.ok
           THEN /\ cu' = [cu EXCEPT !.totpError = "error.message",
                                    !.loading = FALSE]
                /\ cuNet' = cuNet (-) One(c)
         ELSE IF secret = NULL
           THEN /\ cu' = [cu EXCEPT !.totpError = "messageTotpSetupMissing",
                                    !.loading = FALSE]
                /\ cuNet' = cuNet (-) One(c)
         ELSE /\ cu' = [cu EXCEPT !.totpPayload = buildTotpPayload(secret),
                                  !.totpError = NULL,
                                  !.status = reply.status,
                                  !.loading = FALSE]
              /\ cuNet' = (cuNet (-) One(c))
                          (+) buildQr(cu.totpPayload.uri,
                                      buildTotpPayload(secret).uri)
  /\ UNCHANGED <<cuRuns, offCred>>

\* buildQr from its await on.
QrBuilt(c, ok) ==
  /\ BagIn(c, cuNet)
  /\ c.op = "qr"
  /\ cu' = [cu EXCEPT !.totpQr = IF ok THEN toDataURL(c.label) ELSE NoQr]
  /\ cuNet' = cuNet (-) One(c)
  /\ UNCHANGED <<cuRuns, offCred>>

SetTotpLabel(v) ==
  /\ cu.totpModalOpen
  /\ cu' = [cu EXCEPT !.totpLabel = v]
  /\ UNCHANGED <<cuNet, cuRuns, offCred>>

SetTotpCode(v) ==
  /\ cu.totpModalOpen
  /\ cu' = [cu EXCEPT !.totpCode = v]
  /\ UNCHANGED <<cuNet, cuRuns, offCred>>

\* submitTotpEnrollment's check of the label and the code.
totpRejected(label, code) == trim(label) = <<>> \/ trim(code) = <<>>

\* submitTotpEnrollment(acceptSha1) up to its await.
SubmitTotpEnrollment(acceptSha1) ==
  /\ cu.totpModalOpen
  /\ ~cu.loading
  /\ acceptSha1 => cu.totpSha1Warning
  /\ IF cu.totpPayload = NoPayload
       THEN UNCHANGED <<cu, cuNet, cuRuns>>
     ELSE IF ~acceptSha1 /\ totpRejected(cu.totpLabel, cu.totpCode)
       THEN /\ cu' = [cu EXCEPT !.totpError = "messageTotpNameCodeRequired"]
            /\ UNCHANGED <<cuNet, cuRuns>>
     ELSE /\ cu' = [cu EXCEPT !.loading = TRUE, !.totpError = NULL]
          /\ Sends("submitTotpEnrollment", 
               IF acceptSha1
                 THEN Bare("totpacceptsha1", "submitTotpEnrollment")
                 ELSE CuCall("totpverify", "submitTotpEnrollment", "",
                             trim(cu.totpLabel), cu.totpCode, NoPayload))
  /\ UNCHANGED offCred

\* The mfaregstate values after which the enrollment goes on.
totpRetry_NotTryAgain(state) ==
  state.tag \in {"TotpInvalidSha1", "TotpNameTryAgain"}
totpRetry(state) ==
  state.tag \in {"TotpInvalidSha1", "TotpTryAgain", "TotpNameTryAgain"}

\* The closing branch of submitTotpEnrollment and of cancelTotpEnrollment.
totpClosed_KeepPayload(c, cancelled) ==
  [c EXCEPT !.totpModalOpen = FALSE, !.totpLabel = <<>>, !.totpCode = <<>>,
            !.totpSha1Warning = FALSE, !.totpCancelled = cancelled]
totpClosed(c, cancelled) ==
  [c EXCEPT !.totpModalOpen = FALSE, !.totpPayload = NoPayload,
            !.totpQr = NoQr, !.totpLabel = <<>>, !.totpCode = <<>>,
            !.totpSha1Warning = FALSE, !.totpCancelled = cancelled]

\* submitTotpEnrollment from its await on.
TotpVerified(c, reply) ==
  /\ BagIn(c, cuNet)
  /\ c.op \in {"totpverify", "totpacceptsha1"}
  /\ reply \in CuReplies(c)
  /\ cuNet' = cuNet (-) One(c)
  /\ LET state == reply.status.mfaregstate
         branch ==
           IF ~totpRetry(state) THEN totpClosed(cu, FALSE)
           ELSE IF state.tag = "TotpInvalidSha1"
             THEN [cu EXCEPT !.totpSha1Warning = TRUE,
                             !.totpError = "messageTotpSha1"]
           ELSE IF state.tag = "TotpTryAgain"
             THEN [cu EXCEPT !.totpError = "messageTotpTryAgain"]
           ELSE [cu EXCEPT !.totpError = "messageTotpNameInvalid"]
     IN  IF ~reply.ok
           THEN cu' = [cu EXCEPT !.totpError = "error.message",
                                 !.loading = FALSE]
           ELSE cu' = [branch EXCEPT !.status = reply.status,
                                     !.loading = FALSE]
  /\ UNCHANGED <<cuRuns, offCred>>

\* cancelTotpEnrollment up to its await; the button is never disabled.
CancelTotpEnrollment ==
  /\ cu.totpModalOpen
  /\ cu' = [cu EXCEPT !.loading = TRUE, !.totpError = NULL]
  /\ Sends("cancelTotpEnrollment", Bare("cancelmfareg", "cancelTotpEnrollment"))
  /\ UNCHANGED offCred

\* What cancelTotpEnrollment makes of the component once its request has
\* settled: the try body or the catch, then the finally.
cancelSettled_CloseAlways(c, reply) ==
  [totpClosed(c, TRUE) EXCEPT !.loading = FALSE]
cancelSettled(c, reply) ==
  IF ~reply.ok
    THEN [c EXCEPT !.totpError = "error.message", !.loading = FALSE]
    ELSE [totpClosed(c, TRUE) EXCEPT !.status = reply.status,
                                     !.loading = FALSE]

\* cancelTotpEnrollment from its await on.
TotpCancelAnswered(c, reply) ==
  /\ BagIn(c, cuNet)
  /\ c.op = "cancelmfareg"
  /\ reply \in CuReplies(c)
  /\ cuNet' = cuNet (-) One(c)
  /\ cu' = cancelSettled(cu, reply)
  /\ UNCHANGED <<cuRuns, offCred>>

\* ---- passkey
\* beginPasskeyEnrollment up to its first await.
BeginPasskeyEnrollment ==
  /\ PageInReach
  /\ ~cu.loading
  /\ cu' = [cu EXCEPT !.loading = TRUE, !.message = NULL]
  /\ Sends("beginPasskeyEnrollment", Bare("passkeyinit", "beginPasskeyEnrollment"))
  /\ UNCHANGED offCred

\* ... from the passkeyinit response to performPasskeyCreation.
PasskeyInitAnswered(c, reply) ==
  /\ BagIn(c, cuNet)
  /\ c.op = "passkeyinit"
  /\ reply \in CuReplies(c)
  /\ IF ~reply.ok
       THEN /\ cu' = [cu EXCEPT !.message = "error.message", !.loading = FALSE]
            /\ cuNet' = cuNet (-) One(c)
     ELSE IF extractPasskeyChallenge(reply.status.mfaregstate) = NULL
       THEN /\ cu' = [cu EXCEPT !.message = "messagePasskeyChallengeMissing",
                                !.loading = FALSE]
            /\ cuNet' = cuNet (-) One(c)
     ELSE /\ cuNet' = (cuNet (-) One(c))
                      (+) One(PasskeyCall("webauthn", c.owner, <<>>,
                            extractPasskeyChallenge(reply.status.mfaregstate)))
          /\ UNCHANGED cu
  /\ UNCHANGED <<cuRuns, offCred>>

\* ... from the authenticator's answer on.
PasskeyCreated(c, ok) ==
  /\ BagIn(c, cuNet)
  /\ c.op = "webauthn"
  /\ cuNet' = cuNet (-) One(c)
  /\ cu' = IF ok
             THEN [cu EXCEPT !.pendingPasskey = performPasskeyCreation(c.passkey),
                             !.passkeyLabel = <<>>,
                             !.passkeyLabelOpen = TRUE, !.loading = FALSE]
             ELSE [cu EXCEPT !.message = "error.message", !.loading = FALSE]
  /\ UNCHANGED <<cuRuns, offCred>>

SetPasskeyLabel(v) ==
  /\ cu.passkeyLabelOpen
  /\ cu' = [cu EXCEPT !.passkeyLabel = v]
  /\ UNCHANGED <<cuNet, cuRuns, offCred>>

\* Mutant: the cancel button leaves the registration in place.
ClosePasskeyLabel_KeepsRegistration ==
  /\ cu.passkeyLabelOpen
  /\ cu' = [cu EXCEPT !.passkeyLabelOpen = FALSE, !.passkeyLabel = <<>>]
  /\ UNCHANGED <<cuNet, cuRuns, offCred>>

\* The cancel button of the passkey label modal.
ClosePasskeyLabel ==
  /\ cu.passkeyLabelOpen
  /\ cu' = [cu EXCEPT !.passkeyLabelOpen = FALSE,
                      !.pendingPasskey = NoRegistration,
                      !.passkeyLabel = <<>>]
  /\ UNCHANGED <<cuNet, cuRuns, offCred>>

\* Mutant: only the empty label is turned away.
labelRejected_EmptyOnly(label) == label = <<>>
\* submitPasskeyLabel's check of the label.
labelRejected(label) == trim(label) = <<>>

\* submitPasskeyLabel up to its await.
SubmitPasskeyLabel ==
  /\ cu.passkeyLabelOpen
  /\ ~cu.loading
  /\ IF cu.pendingPasskey = NoRegistration
       THEN UNCHANGED <<cu, cuNet, cuRuns>>
     ELSE IF labelRejected(cu.passkeyLabel)
       THEN /\ cu' = [cu EXCEPT !.message = "messagePasskeyLabelRequired"]
            /\ UNCHANGED <<cuNet, cuRuns>>
     ELSE /\ cu' = [cu EXCEPT !.loading = TRUE, !.message = NULL]
          /\ Sends("submitPasskeyLabel",
                   PasskeyCall("passkeyfinish", "submitPasskeyLabel",
                               trim(cu.passkeyLabel), cu.pendingPasskey))
  /\ UNCHANGED offCred

\* submitPasskeyLabel run while no registration is held, the state conflict
\* of finishing an enrollment that has nothing pending: its first line
\* returns. The run is counted; nothing else is written.
SubmitPasskeyLabelUnheld ==
  /\ cu.pendingPasskey = NoRegistration
  /\ cuRuns < MaxRuns
  /\ cuRuns' = cuRuns + 1
  /\ UNCHANGED <<cu, cuNet, offCred>>

\* submitPasskeyLabel from its await on.
PasskeyFinishAnswered(c, reply) ==
  /\ BagIn(c, cuNet)
  /\ c.op = "passkeyfinish"
  /\ reply \in CuReplies(c)
  /\ cuNet' = cuNet (-) One(c)
  /\ cu' = IF reply.ok
             THEN [cu EXCEPT !.status = reply.status, !.passkeyLabel = <<>>,
                             !.pendingPasskey = NoRegistration,
                             !.passkeyLabelOpen = FALSE,
                             !.message = "messagePasskeyEnrolled",
                             !.loading = FALSE]
             ELSE [cu EXCEPT !.message = "error.message", !.loading = FALSE]
  /\ UNCHANGED <<cuRuns, offCred>>

\* ---- the credential update session as a whole
CuInFlight == BagToSet(cuNet)

NextCred ==
  \/ \E v \in Passwords : SetPassword(v)
  \/ \E v \in Passwords : SetPasswordConfirm(v)
  \/ ToggleShowPasswordForm
  \/ SubmitPasswordChange
  \/ \E c \in CuInFlight : \E reply \in CuReplies(c) : PasswordAnswered(c, reply)
  \/ BeginTotpEnrollment
  \/ \E c \in CuInFlight : \E reply \in CuReplies(c) : TotpGenerated(c, reply)
  \/ \E c \in CuInFlight, ok \in BOOLEAN : QrBuilt(c, ok)
  \/ \E v \in Labels : SetTotpLabel(v)
  \/ \E v \in Codes : SetTotpCode(v)
  \/ \E acceptSha1 \in BOOLEAN : SubmitTotpEnrollment(acceptSha1)
  \/ \E c \in CuInFlight : \E reply \in CuReplies(c) : TotpVerified(c, reply)
  \/ CancelTotpEnrollment
  \/ \E c \in CuInFlight : \E reply \in CuReplies(c) : TotpCancelAnswered(c, reply)
  \/ BeginPasskeyEnrollment
  \/ \E c \in CuInFlight : \E reply \in CuReplies(c) : PasskeyInitAnswered(c, reply)
  \/ \E c \in CuInFlight, ok \in BOOLEAN : PasskeyCreated(c, ok)
  \/ \E v \in Labels : SetPasskeyLabel(v)
  \/ ClosePasskeyLabel
  \/ SubmitPasskeyLabel
  \/ \E c \in CuInFlight : \E reply \in CuReplies(c) : PasskeyFinishAnswered(c, reply)

\* What the runtime does without the user: a pending call settles and the
\* handler awaiting it resumes.
CredProgress ==
  \/ \E c \in CuInFlight : \E reply \in CuReplies(c) : PasswordAnswered(c, reply)
  \/ \E c \in CuInFlight : \E reply \in CuReplies(c) : TotpGenerated(c, reply)
  \/ \E c \in CuInFlight, ok \in BOOLEAN : QrBuilt(c, ok)
  \/ \E c \in CuInFlight : \E reply \in CuReplies(c) : TotpVerified(c, reply)
  \/ \E c \in CuInFlight : \E reply \in CuReplies(c) : TotpCancelAnswered(c, reply)
  \/ \E c \in CuInFlight : \E reply \in CuReplies(c) : PasskeyInitAnswered(c, reply)
  \/ \E c \in CuInFlight, ok \in BOOLEAN : PasskeyCreated(c, ok)
  \/ \E c \in CuInFlight : \E reply \in CuReplies(c) : PasskeyFinishAnswered(c, reply)

\* ------------------------------------ the pages behind the elevation gate
\* Profile.tsx, SshKeys.tsx and PersonCreate.tsx: the handlers that mutate
\* the directory, each behind canEdit, and the profile page's commit and
\* discard of a credential update session. The page in view is `pg.route`;
\* the cells of the three pages that play the same part share a field.
offPage == <<provVars, winVars, reauthVars, permVars, cuVars>>

\* A message cell: null, a translated text (its key), or an error's own text.
Msg(key, text) == [key |-> key, text |-> text]
NoMsg == Msg(NULL, <<>>)
T(key) == Msg(key, <<>>)
ErrorText(text) == Msg("error", text)

\* error.message of a rejected API call.
ErrorTexts ==
  {<<"(", "4", "0", "1", ")">>,
   <<"S", "e", "s", "s", "i", "o", "n", "E", "x", "p", "i", "r", "e", "d">>,
   <<"(", "5", "0", "0", ")">>}
PgOk == [ok |-> TRUE, text |-> <<>>]
PgReplies == {PgOk} \cup {[ok |-> FALSE, text |-> e] : e \in ErrorTexts}
\* The answers taken for the calls whose handler treats every error alike.
PlainReplies == {PgOk, [ok |-> FALSE, text |-> <<"(", "5", "0", "0", ")">>]}

\* String.prototype.includes.
includes(str, part) ==
  \E i \in 1..(Len(str) - Len(part) + 1) :
    SubSeq(str, i, i + Len(part) - 1) = part

\* Mutant: only a '401' counts as an expired session.
isAuthExpiredError_StatusOnly(text) ==
  includes(toLowerCase(text), <<"4", "0", "1">>)

\* isAuthExpiredError, Profile.tsx lines 204-208.
isAuthExpiredError(text) ==
  LET message == toLowerCase(text)
  IN  \/ includes(message, <<"4", "0", "1">>)
      \/ includes(message, <<"s", "e", "s", "s", "i", "o", "n", "e", "x", "p",
                             "i", "r", "e", "d">>)

\* PersonCreate.tsx line 25.
IdmPeopleAdmins ==
  <<"i", "d", "m", "_", "p", "e", "o", "p", "l", "e", "_", "a", "d", "m",
    "i", "n", "s">>
canCreate == hasAnyGroup(memberOf, {IdmPeopleAdmins})
\* SshKeys.tsx line 28.
canManage == permissions.selfWriteAllowed
\* Profile.tsx lines 101-104.
canEditSelfWrite == canEdit /\ permissions.selfWriteAllowed
hasAnyEditPermission ==
  LET p == permissions IN p.nameAllowed \/ p.emailAllowed

Routes == {"profile", "ssh", "personCreate"}

\* A page as it mounts (the useState initial values; profile loaded).
PgMounted(route) ==
  [route |-> route, notice |-> NULL, message |-> NoMsg, busy |-> FALSE,
   deleting |-> FALSE, credSession |-> NULL, credStatus |-> NULL,
   credLoading |-> FALSE, credMessage |-> NoMsg, radiusSecret |-> NULL,
   radiusMessage |-> NoMsg, radiusLoading |-> FALSE]

\* No gated page is in view.
NoPage ==
  /\ pg = PgMounted(NULL)
  /\ pgNet = EmptyBag

\* An API call of a page: the function called and the handler awaiting it.
PgCall(op, owner) == [op |-> op, owner |-> owner]
PgInFlight == BagToSet(pgNet)
PgSends(call) ==
  /\ BagCardinality(pgNet) < MaxPending
  /\ pgNet' = pgNet (+) One(call)
\* A handler resumes from call c, and awaits the calls of `next`.
PgResumes(c, next) == pgNet' = (pgNet (-) One(c)) (+) next

\* The user can reach a control of page r: r is in view, rendered, and not
\* behind the reauth dialog's backdrop (AuthContext.tsx 357-358).
PageInView(r) ==
  /\ pg.route = r
  /\ ~reauthOpen
  /\ Rendered

\* A handler step that touches the page only.
pageAct(name) ==
  /\ uiAct(name)
  /\ UNCHANGED offPage

\* A handler ends in `requestReauth(); return`: AuthContext.tsx 341-344.
requestReauthCalled(name) ==
  /\ IF ~(seen.open \/ seen.loading) /\ status = "authenticated"
       THEN beginReauth
       ELSE /\ uiAct(name)
            /\ UNCHANGED <<reauthOpen, reauthLoading, reauthMessage,
                           reauthAllowed, reauthPassword, reauthTotp>>
  /\ UNCHANGED <<pgNet, seen, sub, srv, provVars, winVars, permVars, cuVars>>

\* --- Profile.tsx: handleProfileSave, lines 210-248.
\* Mutant: the save is sent without looking at canEdit.
saveGate_Open == FALSE
\* Line 215.
saveGate == ~canEdit

\* The form is submitted, with both names filled in or not.
HandleProfileSave ==
  /\ PageInView("profile")
  /\ hasAnyEditPermission
  /\ IF saveGate
       THEN /\ pg' = [pg EXCEPT !.message = NoMsg]
            /\ requestReauthCalled("handleProfileSave")
       ELSE /\ \/ /\ pg' = [pg EXCEPT
                               !.message = T("messageNameDisplayRequired")]
                  /\ UNCHANGED pgNet
               \/ /\ pg' = [pg EXCEPT !.message = NoMsg]
                  /\ PgSends(PgCall("updatePersonProfile", "save"))
            /\ pageAct("handleProfileSave")

\* updatePersonProfile() settles: lines 232-233 (setAuthenticated() up to
\* its await, AuthContext.tsx 67-69) or the catch, 243-247.
ProfileSaveAnswered(reply) ==
  /\ pg.route = "profile"
  /\ LET c == PgCall("updatePersonProfile", "save") IN
       /\ c \in PgInFlight
       /\ IF reply.ok
            THEN /\ status' = "authenticated"
                 /\ PgResumes(c, One(PgCall("fetchWhoami", "save")))
                 /\ UNCHANGED pg
            ELSE /\ pg' = [pg EXCEPT !.message = ErrorText(reply.text)]
                 /\ PgResumes(c, EmptyBag)
                 /\ UNCHANGED status
  /\ uiAct("handleProfileSave")
  /\ UNCHANGED <<user, so, mount, winVars, reauthVars, permVars, cuVars>>

\* refreshUser() settles inside setAuthenticated(): lines 234-237 or the
\* catch.
ProfileSaveRefreshed(reply) ==
  /\ pg.route = "profile"
  /\ LET c == PgCall("fetchWhoami", "save") IN
       /\ c \in PgInFlight
       /\ PgResumes(c, EmptyBag)
       /\ IF reply.ok
            THEN /\ user' = Profile
                 /\ pg' = [pg EXCEPT !.message = T("messageProfileUpdated")]
            ELSE /\ pg' = [pg EXCEPT !.message = ErrorText(reply.text)]
                 /\ UNCHANGED user
  /\ uiAct("handleProfileSave")
  /\ UNCHANGED <<status, so, mount, winVars, reauthVars, permVars, cuVars>>

\* --- startCredentialSession, lines 250-269.
\* Line 252.
sessionGate == ~canEditSelfWrite

StartCredentialSession ==
  /\ PageInView("profile")
  /\ pg.credSession = NULL
  /\ ~pg.credLoading
  /\ permissions.selfWriteAllowed
  /\ IF sessionGate
       THEN /\ UNCHANGED pg
            /\ requestReauthCalled("startCredentialSession")
       ELSE /\ pg' = [pg EXCEPT !.credLoading = TRUE, !.credMessage = NoMsg]
            /\ PgSends(PgCall("beginCredentialUpdate", "start"))
            /\ pageAct("startCredentialSession")

CredentialSessionAnswered(reply) ==
  /\ pg.route = "profile"
  /\ LET c == PgCall("beginCredentialUpdate", "start") IN
       /\ c \in PgInFlight
       /\ PgResumes(c, EmptyBag)
       /\ pg' = IF reply.ok
                  THEN [pg EXCEPT !.credSession = "cus", !.credStatus = "status",
                                  !.credLoading = FALSE]
                  ELSE [pg EXCEPT !.credMessage = ErrorText(reply.text),
                                  !.credLoading = FALSE]
  /\ pageAct("startCredentialSession")

\* --- commitCredentialChanges, lines 272-306.
\* handleSessionExpiredAfterCommit, lines 195-202, followed by the finally
\* block of the handler it returns into (line 304).
handleSessionExpiredAfterCommit ==
  /\ pg' = [pg EXCEPT !.notice = "credentialsUpdated", !.route = "login",
                      !.credLoading = FALSE]
  /\ clearAuthToken
  /\ lastAct' = Ev("ui", "handleSessionExpiredAfterCommit", NoResp, NULL, NULL)
  /\ UNCHANGED <<net, liveSid, offPage>>

CommitCredentialChanges ==
  /\ PageInView("profile")
  /\ pg.credSession # NULL
  /\ pg.credStatus # NULL
  /\ ~pg.credLoading
  /\ pg' = [pg EXCEPT !.credLoading = TRUE, !.credMessage = NoMsg]
  /\ PgSends(PgCall("commitCredentialUpdate", "commit"))
  /\ pageAct("commitCredentialChanges")

\* Mutant: a failed commit drops the local session as a successful one does.
commitSettled_ClearAlways(reply) ==
  IF reply.ok
    THEN [pg EXCEPT !.credSession = NULL, !.credStatus = NULL]
    ELSE [pg EXCEPT !.credSession = NULL, !.credStatus = NULL,
                    !.credMessage = ErrorText(reply.text),
                    !.credLoading = FALSE]

\* commitCredentialUpdate() settles: lines 277-279, or the outer catch and
\* the finally, 299-305.
commitSettled(reply) ==
  IF reply.ok
    THEN [pg EXCEPT !.credSession = NULL, !.credStatus = NULL]
    ELSE [pg EXCEPT !.credMessage = ErrorText(reply.text),
                    !.credLoading = FALSE]

CommitAnswered(reply) ==
  /\ pg.route = "profile"
  /\ LET c == PgCall("commitCredentialUpdate", "commit") IN
       /\ c \in PgInFlight
       /\ PgResumes(c, IF reply.ok
                         THEN One(PgCall("fetchCredentialStatus", "commit"))
                         ELSE EmptyBag)
  /\ pg' = commitSettled(reply)
  /\ pageAct("commitCredentialChanges")

\* The calls a handler makes after its mutation, in order.
FollowUps == <<"fetchCredentialStatus", "fetchSelfProfile">>
FollowUpCalls(owner) == {PgCall(FollowUps[i], owner) : i \in 1..Len(FollowUps)}
AfterFollowUp(c) ==
  IF c.op = FollowUps[1] THEN One(PgCall(FollowUps[2], c.owner)) ELSE EmptyBag

\* fetchCredentialStatus() or fetchSelfProfile() settles after a commit:
\* lines 281-296 and the finally.
CommitFollowedUp(c, reply) ==
  /\ pg.route = "profile"
  /\ c \in PgInFlight
  /\ c \in FollowUpCalls("commit")
  /\ IF reply.ok
       THEN /\ PgResumes(c, AfterFollowUp(c))
            /\ pg' = IF AfterFollowUp(c) = EmptyBag
                       THEN [pg EXCEPT
                               !.credMessage = T("messageCredentialSaved"),
                               !.credLoading = FALSE]
                       ELSE pg
            /\ pageAct("commitCredentialChanges")
       ELSE /\ PgResumes(c, EmptyBag)
            /\ IF isAuthExpiredError(reply.text)
                 THEN handleSessionExpiredAfterCommit
                 ELSE /\ pg' = [pg EXCEPT
                                  !.credMessage = ErrorText(reply.text),
                                  !.credLoading = FALSE]
                      /\ pageAct("commitCredentialChanges")

\* --- cancelCredentialChanges, lines 308-328.
CancelCredentialChanges ==
  /\ PageInView("profile")
  /\ pg.credSession # NULL
  /\ pg.credStatus # NULL
  /\ ~pg.credLoading
  /\ pg' = [pg EXCEPT !.credLoading = TRUE, !.credMessage = NoMsg]
  /\ PgSends(PgCall("cancelCredentialUpdate", "cancel"))
  /\ pageAct("cancelCredentialChanges")

\* cancelCredentialUpdate() settles: lines 313-315, or the catch and finally.
CancelAnswered(reply) ==
  /\ pg.route = "profile"
  /\ LET c == PgCall("cancelCredentialUpdate", "cancel") IN
       /\ c \in PgInFlight
       /\ PgResumes(c, IF reply.ok
                         THEN One(PgCall("fetchCredentialStatus", "cancel"))
                         ELSE EmptyBag)
  /\ pg' = IF reply.ok
             THEN [pg EXCEPT !.credSession = NULL, !.credStatus = NULL]
             ELSE [pg EXCEPT !.credMessage = ErrorText(reply.text),
                             !.credLoading = FALSE]
  /\ pageAct("cancelCredentialChanges")

\* A follow-up fetch settles after a discard: lines 317-320, or the catch.
CancelFollowedUp(c, reply) ==
  /\ pg.route = "profile"
  /\ c \in PgInFlight
  /\ c \in FollowUpCalls("cancel")
  /\ IF reply.ok
       THEN /\ PgResumes(c, AfterFollowUp(c))
            /\ pg' = IF AfterFollowUp(c) = EmptyBag
                       THEN [pg EXCEPT !.credLoading = FALSE]
                       ELSE pg
       ELSE /\ PgResumes(c, EmptyBag)
            /\ pg' = [pg EXCEPT !.credMessage = ErrorText(reply.text),
                                !.credLoading = FALSE]
  /\ pageAct("cancelCredentialChanges")

\* --- regenerateRadius / clearRadius, lines 330-367.
RadiusOps == {"regenerateRadiusSecret", "deleteRadiusSecret"}

\* The button of either handler: lines 597-610 for what enables it.
RadiusHandler(op) ==
  /\ PageInView("profile")
  /\ ~pg.radiusLoading
  /\ op = "deleteRadiusSecret" => pg.radiusSecret # NULL
  /\ permissions.selfWriteAllowed
  /\ IF ~canEditSelfWrite
       THEN /\ UNCHANGED pg
            /\ requestReauthCalled(op)
       ELSE /\ pg' = [pg EXCEPT !.radiusLoading = TRUE,
                                !.radiusMessage = NoMsg]
            /\ PgSends(PgCall(op, "radius"))
            /\ pageAct(op)

RadiusAnswered(op, reply) ==
  /\ pg.route = "profile"
  /\ PgCall(op, "radius") \in PgInFlight
  /\ PgResumes(PgCall(op, "radius"), EmptyBag)
  /\ pg' = IF reply.ok
             THEN [pg EXCEPT !.radiusSecret = IF op = "deleteRadiusSecret"
                                                THEN NULL ELSE "secret",
                             !.radiusLoading = FALSE]
             ELSE [pg EXCEPT !.radiusMessage = ErrorText(reply.text),
                             !.radiusLoading = FALSE]
  /\ pageAct(op)

\* --- SshKeys.tsx: handleAdd, lines 64-100, and handleDelete, 102-130.
\* What the form holds: both fields, or a blank label, or a blank key.
SshForms == {"filled", "noLabel", "noKey"}

HandleAdd ==
  /\ PageInView("ssh")
  /\ ~pg.busy
  /\ canManage
  /\ IF ~canEdit
       THEN /\ UNCHANGED pg
            /\ requestReauthCalled("handleAdd")
       ELSE /\ \E form \in SshForms :
                 IF form = "filled"
                   THEN /\ pg' = [pg EXCEPT !.busy = TRUE, !.message = NoMsg]
                        /\ PgSends(PgCall("addSshPublicKey", "add"))
                   ELSE /\ pg' = [pg EXCEPT !.message =
                                    IF form = "noLabel"
                                      THEN T("messageLabelRequired")
                                      ELSE T("messageKeyRequired")]
                        /\ UNCHANGED pgNet
            /\ pageAct("handleAdd")

HandleDelete ==
  /\ PageInView("ssh")
  /\ ~pg.deleting
  /\ canManage
  /\ IF ~canEdit
       THEN /\ UNCHANGED pg
            /\ requestReauthCalled("handleDelete")
       ELSE /\ pg' = [pg EXCEPT !.deleting = TRUE, !.message = NoMsg]
            /\ PgSends(PgCall("deleteSshPublicKey", "delete"))
            /\ pageAct("handleDelete")

\* The handler's own cell: submitting, or deletingLabel.
SshDone(owner, p) ==
  IF owner = "add" THEN [p EXCEPT !.busy = FALSE]
                   ELSE [p EXCEPT !.deleting = FALSE]

\* addSshPublicKey() / deleteSshPublicKey() settles: loadKeys() is awaited
\* next (lines 85, 116), or the catch and finally run.
SshAnswered(c, reply) ==
  /\ pg.route = "ssh"
  /\ c \in PgInFlight
  /\ c.op \in {"addSshPublicKey", "deleteSshPublicKey"}
  /\ IF reply.ok
       THEN /\ PgResumes(c, One(PgCall("fetchSshPublicKeys", c.owner)))
            /\ UNCHANGED pg
       ELSE /\ PgResumes(c, EmptyBag)
            /\ pg' = SshDone(c.owner,
                             [pg EXCEPT !.message = ErrorText(reply.text)])
  /\ pageAct(c.owner)

\* loadKeys(), lines 36-54, settles inside the handler: its own catch shows
\* the error, and the handler reports success only if it returned true.
SshReloaded(c, reply) ==
  /\ pg.route = "ssh"
  /\ c \in PgInFlight
  /\ c.op = "fetchSshPublicKeys"
  /\ PgResumes(c, EmptyBag)
  /\ pg' = SshDone(c.owner,
             [pg EXCEPT !.message =
                IF ~reply.ok THEN ErrorText(reply.text)
                ELSE IF c.owner = "add" THEN T("messageAdded")
                ELSE T("messageRemoved")])
  /\ pageAct(c.owner)

\* --- PersonCreate.tsx: handleSubmit, lines 27-56.
\* The form is submitted, with both names filled in or not.
HandleSubmit ==
  /\ PageInView("personCreate")
  /\ ~pg.busy
  /\ canCreate
  /\ IF ~canEdit
       THEN /\ UNCHANGED pg
            /\ requestReauthCalled("handleSubmit")
       ELSE /\ \/ /\ pg' = [pg EXCEPT !.busy = TRUE, !.message = NoMsg]
                  /\ PgSends(PgCall("createPerson", "create"))
               \/ /\ pg' = [pg EXCEPT !.message = T("required")]
                  /\ UNCHANGED pgNet
            /\ pageAct("handleSubmit")

CreateAnswered(reply) ==
  /\ pg.route = "personCreate"
  /\ PgCall("createPerson", "create") \in PgInFlight
  /\ PgResumes(PgCall("createPerson", "create"), EmptyBag)
  /\ pg' = IF reply.ok
             THEN [pg EXCEPT !.route = "person", !.busy = FALSE]
             ELSE [pg EXCEPT !.message = ErrorText(reply.text),
                             !.busy = FALSE]
  /\ pageAct("handleSubmit")

\* The mutating requests of the gated handlers.
MutatingOps ==
  {"updatePersonProfile", "beginCredentialUpdate", "addSshPublicKey",
   "deleteSshPublicKey", "createPerson"} \cup RadiusOps

\* The gated pages, and the reauth dialog as far as a page's request for it
\* goes: the begin call is answered or fails, and the user closes the dialog.
NextPages ==
  \/ Render
  \/ ReauthHeaders("begin")
  \/ BeginReturn
  \/ ReauthReject("begin")
  \/ ReauthThrow("begin")
  \/ CancelReauth
  \/ HandleProfileSave
  \/ \E reply \in PlainReplies : ProfileSaveAnswered(reply)
  \/ \E reply \in PlainReplies : ProfileSaveRefreshed(reply)
  \/ StartCredentialSession
  \/ \E reply \in PlainReplies : CredentialSessionAnswered(reply)
  \/ CommitCredentialChanges
  \/ \E reply \in PgReplies : CommitAnswered(reply)
  \/ \E c \in PgInFlight, reply \in PgReplies : CommitFollowedUp(c, reply)
  \/ CancelCredentialChanges
  \/ \E reply \in PlainReplies : CancelAnswered(reply)
  \/ \E c \in PgInFlight, reply \in PlainReplies : CancelFollowedUp(c, reply)
  \/ \E op \in RadiusOps : RadiusHandler(op)
  \/ \E op \in RadiusOps, reply \in PlainReplies : RadiusAnswered(op, reply)
  \/ HandleAdd
  \/ HandleDelete
  \/ \E c \in PgInFlight, reply \in PlainReplies : SshAnswered(c, reply)
  \/ \E c \in PgInFlight, reply \in PlainReplies : SshReloaded(c, reply)
  \/ HandleSubmit
  \/ \E reply \in PlainReplies : CreateAnswered(reply)

\* The pending calls settle; what the user does stays optional.
PagesProgress ==
  \/ Render
  \/ ReauthHeaders("begin")
  \/ BeginReturn
  \/ ReauthReject("begin")
  \/ ReauthThrow("begin")
  \/ \E reply \in PlainReplies : ProfileSaveAnswered(reply)
  \/ \E reply \in PlainReplies : ProfileSaveRefreshed(reply)
  \/ \E reply \in PlainReplies : CredentialSessionAnswered(reply)
  \/ \E reply \in PgReplies : CommitAnswered(reply)
  \/ \E c \in PgInFlight, reply \in PgReplies : CommitFollowedUp(c, reply)
  \/ \E reply \in PlainReplies : CancelAnswered(reply)
  \/ \E c \in PgInFlight, reply \in PlainReplies : CancelFollowedUp(c, reply)
  \/ \E op \in RadiusOps, reply \in PlainReplies : RadiusAnswered(op, reply)
  \/ \E c \in PgInFlight, reply \in PlainReplies : SshAnswered(c, reply)
  \/ \E c \in PgInFlight, reply \in PlainReplies : SshReloaded(c, reply)
  \/ \E reply \in PlainReplies : CreateAnswered(reply)

\* No credential update session is open, and no gated page is in view.
NoCredSession ==
  /\ cu = CuMounted(CUStatus({}, RegNone))
  /\ cuNet = EmptyBag
  /\ cuRuns = 0
  /\ NoPage

ReauthOwners == {"begin", "submit", "passkey"}

\* A signed-in session with a read-only token and the reauth UI closed.
SignedIn ==
  /\ tokenStore = "tokA"
  /\ authSessionId = NULL
  /\ net = EmptyBag
  /\ liveSid = NULL
  /\ lastAct = [act |-> "init", op |-> NULL, resp |-> NoResp, reqSid |-> NULL,
                reqTok |-> NULL, preTok |-> NULL, preSid |-> NULL]
  /\ status = "authenticated"
  /\ user = Profile
  /\ so = "idle"
  /\ mount = Mount("done", FALSE)
  /\ uat = Uat(PurposeReadonly, NullNum)
  /\ now = T0
  /\ clock = 0
  /\ timerDue = -1
  /\ reauthOpen = FALSE
  /\ reauthAllowed = {}
  /\ reauthMessage = NULL
  /\ reauthLoading = FALSE
  /\ reauthTotp = ""
  /\ reauthPassword = ""
  /\ seen = [open |-> FALSE, loading |-> FALSE]
  /\ sub = SubIdle
  /\ srv = SrvIdle

InitReauth ==
  /\ SignedIn
  /\ memberOf = <<>>
  /\ origin = <<>>
  /\ NoCredSession

NextReauth ==
  \/ Render
  \/ RequestReauth
  \/ \E o \in ReauthOwners : ReauthHeaders(o)
  \/ \E o \in ReauthOwners : ReauthReject(o)
  \/ \E o \in ReauthOwners : ReauthThrow(o)
  \/ BeginReturn
  \/ \E o \in ReauthOwners : ReauthSuccess(o)
  \/ \E o \in ReauthOwners, ok \in BOOLEAN : ReauthWhoamiDone(o, ok)
  \/ \E o \in ReauthOwners, u \in {FetchedUat, NoUat} : ReauthUatDone(o, u)
  \/ \E v \in Inputs : SetReauthPassword(v)
  \/ \E v \in Inputs : SetReauthTotp(v)
  \/ CancelReauth
  \/ SubmitReauth
  \/ SubmitReturn
  \/ PasskeyStart
  \/ \E v \in {"good", "bad"} : PasskeyCredential(v)
  \/ PasskeyAbort
  \/ PasskeyReturn

SpecReauth == InitReauth /\ [][NextReauth]_vars

\* What the runtime does without the user: a pending fetch settles, an
\* awaiting handler resumes, React commits a pending render.
ReauthProgress ==
  \/ Render
  \/ \E o \in ReauthOwners : ReauthHeaders(o)
  \/ \E o \in ReauthOwners : ReauthReject(o)
  \/ \E o \in ReauthOwners : ReauthThrow(o)
  \/ BeginReturn
  \/ \E o \in ReauthOwners : ReauthSuccess(o)
  \/ \E o \in ReauthOwners, ok \in BOOLEAN : ReauthWhoamiDone(o, ok)
  \/ \E o \in ReauthOwners, u \in {FetchedUat, NoUat} : ReauthUatDone(o, u)
  \/ SubmitReturn
  \/ \E v \in {"good", "bad"} : PasskeyCredential(v)
  \/ PasskeyAbort
  \/ PasskeyReturn

\* The reauth flow in which the runtime keeps going; the user's own actions
\* (typing, submitting, cancelling, asking for a reauth) stay optional.
SpecReauthLive ==
  InitReauth /\ [][NextReauth]_vars /\ WF_vars(ReauthProgress)

\* A signed-in identity whose group list the directory serves in its
\* canonical spelling first.
InitPerms ==
  /\ SignedIn
  /\ origin \in Memberships
  /\ memberOf = origin
  /\ NoCredSession

SpecPerms == InitPerms /\ [][NextPerms]_vars

\* A signed-in identity that has just opened a credential update session:
\* CredentialSections mounts on the status beginCredentialUpdate returned.
InitCred ==
  /\ SignedIn
  /\ memberOf = <<>>
  /\ origin = <<>>
  /\ \E w \in WarningSets : cu = CuMounted(CUStatus(w, RegNone))
  /\ cuNet = EmptyBag
  /\ cuRuns = 0
  /\ NoPage

\* The pending calls settle; what the user does stays optional.
SpecCred == InitCred /\ [][NextCred]_vars /\ WF_vars(CredProgress)

\* The credential sections with submitPasskeyLabel also run out of turn.
NextFinish ==
  \/ NextCred
  \/ SubmitPasskeyLabelUnheld
SpecFinish == InitCred /\ [][NextFinish]_vars /\ WF_vars(CredProgress)

\* The tokens and memberships a page is opened with: no window, a window
\* that is open, a window inside the cutoff margin; and the groups the
\* gates of the pages look for.
PageUats ==
  {Uat(PurposeReadonly, NullNum),
   Uat(PurposeReadwrite(AsMillis(150000)), NumAdd(T0, NumOf(150000))),
   Uat(PurposeReadwrite(AsMillis(45000)), NumAdd(T0, NumOf(45000)))}
PageMemberships ==
  {<<IdmPeopleSelfMailWrite>>, <<IdmAllPersons, IdmPeopleAdmins>>}

\* A signed-in identity has one of the gated pages in view; an abandoned
\* reauth may have left its handle behind.
InitPages ==
  /\ tokenStore = "tokA"
  /\ authSessionId \in {NULL} \cup ReauthSids
  /\ net = EmptyBag
  /\ liveSid = NULL
  /\ lastAct = [act |-> "init", op |-> NULL, resp |-> NoResp, reqSid |-> NULL,
                reqTok |-> NULL, preTok |-> NULL, preSid |-> NULL]
  /\ status = "authenticated"
  /\ user = Profile
  /\ so = "idle"
  /\ mount = Mount("done", FALSE)
  /\ uat \in PageUats
  /\ now = T0
  /\ clock = 0
  /\ timerDue = -1
  /\ reauthOpen = FALSE
  /\ reauthAllowed = {}
  /\ reauthMessage = NULL
  /\ reauthLoading = FALSE
  /\ reauthTotp = ""
  /\ reauthPassword = ""
  /\ seen = [open |-> FALSE, loading |-> FALSE]
  /\ sub = SubIdle
  /\ srv = SrvIdle
  /\ origin \in PageMemberships
  /\ memberOf = origin
  /\ cu = CuMounted(CUStatus({}, RegNone))
  /\ cuNet = EmptyBag
  /\ cuRuns = 0
  /\ \E r \in Routes : pg = PgMounted(r)
  /\ pgNet = EmptyBag

SpecPages == InitPages /\ [][NextPages]_vars /\ WF_vars(PagesProgress)

\* The reauth flow with back-to-back requestReauth() calls.
NextReauthRace ==
  \/ NextReauth
  \/ RequestReauthStale

SpecReauthRace == InitReauth /\ [][NextReauthRace]_vars

\* ---------------------------------------------------------- specification
InitAct == [act |-> "init", op |-> NULL, resp |-> NoResp, reqSid |-> NULL,
            reqTok |-> NULL, preTok |-> NULL, preSid |-> NULL]

Init ==
  /\ tokenStore \in {NULL, "tokA"}
  /\ authSessionId = NULL
  /\ net = EmptyBag
  /\ liveSid = NULL
  /\ lastAct = InitAct
  /\ status = "checking"
  /\ user = NULL
  /\ so = "idle"
  /\ mount = Mount("mounting", FALSE)
  /\ uat = NoUat
  /\ now = T0
  /\ clock = 0
  /\ timerDue = -1
  /\ reauthOpen = FALSE
  /\ reauthAllowed = {}
  /\ reauthMessage = NULL
  /\ reauthLoading = FALSE
  /\ reauthTotp = ""
  /\ reauthPassword = ""
  /\ seen = [open |-> FALSE, loading |-> FALSE]
  /\ sub = SubIdle
  /\ srv = SrvIdle
  /\ memberOf = <<>>
  /\ origin = <<>>
  /\ NoCredSession

Next ==
  \/ \E op \in StepOps : CallerSend(op)
  \/ \E r \in Replies : CallerHeaders(r)
  \/ CallerReject
  \/ CallerThrow
  \/ CallerReturn
  \/ CallerSuccess
  \/ \E ok \in BOOLEAN : RefreshUserDone(ok)
  \/ SignOutStart
  \/ \E outcome \in LogoutOutcomes : SignOutEnd(outcome)

Spec == Init /\ [][Next]_vars

SpecWindow == Init /\ [][NextWindow]_vars

\* The provider from its mount on: the check effect, its cleanup, and the
\* consumers of setAuthenticated and signOut.
NextMount ==
  \/ CheckStart
  \/ \E ok \in BOOLEAN : CheckDone(ok)
  \/ Unmount
  \/ SetAuthenticated
  \/ \E ok \in BOOLEAN : RefreshUserDone(ok)
  \/ SignOutStart
  \/ \E o \in LogoutOutcomes : SignOutEnd(o)

\* The effect runs once mounted, and a pending fetchWhoami() settles.
SpecMount ==
  /\ Init
  /\ [][NextMount]_vars
  /\ WF_vars(CheckStart)
  /\ WF_vars(\E ok \in BOOLEAN : CheckDone(ok))

\* ------------------------------- the two providers together, lines 206-221
\* AccessProvider's effect on [status, refreshUat], run in the commit that
\* changes `status` to st: setUat(null) unless st is 'authenticated', else
\* refreshUat() is called and left to settle. `calls` are what the handler
\* that changed the status has itself put in flight.
statusEffect(st, calls) ==
  IF st = status
    THEN /\ net' = net (+) calls
         /\ UNCHANGED winVars
  ELSE IF st # "authenticated"
    THEN /\ net' = net (+) calls
         /\ setUat(NoUat)
  ELSE /\ net' = net (+) calls (+) One(UatCall("effect"))
       /\ UNCHANGED winVars

\* setAuthenticated(), lines 67-70, and the effect its status change runs.
AccessSetAuthenticated ==
  /\ ~mount.cancelled
  /\ BagCardinality(net) < MaxCallers
  /\ status' = "authenticated"
  /\ statusEffect("authenticated", One(WhoamiCall("caller")))
  /\ lastAct' = Ev("setAuthenticated", NULL, NoResp, NULL, NULL)
  /\ UNCHANGED <<tokenStore, authSessionId, liveSid, user, so, mount,
                 reauthVars, extVars>>

\* signOut's finally block, lines 75-78, and the effect its status change
\* runs.
AccessSignOutEnd(outcome) ==
  /\ so = "sent"
  /\ so' = "idle"
  /\ signOutSettled(outcome)
  /\ statusEffect("unauthenticated", EmptyBag)
  /\ liveSid' = NULL
  /\ lastAct' = Ev("signOutEnd", outcome, NoResp, NULL, NULL)
  /\ UNCHANGED <<mount, reauthVars, extVars>>

\* refreshUat, lines 206-213, from its await on: the token fetched is
\* stored, or null when the fetch failed.
RefreshUatSettled(u) ==
  /\ UatCall("effect") \in InFlight
  /\ net' = net (-) One(UatCall("effect"))
  /\ setUat(u)
  /\ lastAct' = Ev("refreshUat", NULL, NoResp, NULL, NULL)
  /\ UNCHANGED <<tokenStore, authSessionId, liveSid, provVars, reauthVars,
                 extVars>>

\* The tokens the effect's fetch may bring: read-write, read-only, none.
EffectUats == {FetchedUat, Uat(PurposeReadonly, NullNum), NoUat}

NextAccess ==
  \/ AccessSetAuthenticated
  \/ \E ok \in BOOLEAN : RefreshUserDone(ok)
  \/ SignOutStart
  \/ \E o \in LogoutOutcomes : AccessSignOutEnd(o)
  \/ \E u \in EffectUats : RefreshUatSettled(u)
  \/ Advance
  \/ Tick

\* The mount check has just set status to 'authenticated': the effect has
\* called refreshUat(), whose fetch is in flight.
InitAccess ==
  /\ tokenStore = "tokA"
  /\ authSessionId = NULL
  /\ net = One(UatCall("effect"))
  /\ liveSid = NULL
  /\ lastAct = InitAct
  /\ status = "authenticated"
  /\ user = Profile
  /\ so = "idle"
  /\ mount = Mount("done", FALSE)
  /\ uat = NoUat
  /\ now = T0
  /\ clock = 0
  /\ timerDue = -1
  /\ reauthOpen = FALSE
  /\ reauthAllowed = {}
  /\ reauthMessage = NULL
  /\ reauthLoading = FALSE
  /\ reauthTotp = ""
  /\ reauthPassword = ""
  /\ seen = [open |-> FALSE, loading |-> FALSE]
  /\ sub = SubIdle
  /\ srv = SrvIdle
  /\ memberOf = <<>>
  /\ origin = <<>>
  /\ NoCredSession

\* The pending fetches settle; what the user does stays optional.
SpecAccess ==
  /\ InitAccess
  /\ [][NextAccess]_vars
  /\ WF_vars(\E u \in EffectUats : RefreshUatSettled(u))

\* ------------------------------------------------------------------ claims
StepEvents == {"headers", "return"}
IsReturn(tag) == lastAct.act = "return" /\ lastAct.resp.state.tag = tag

\* C1: when a negotiation step (authRequest behind authInit/authBegin/any
\* credential submission, or reauthBegin) returns Success(credential), the
\* Session Store holds exactly that credential and the handle is null.
C1_SuccessStoresCredential ==
  IsReturn("success") =>
    /\ tokenStore = lastAct.resp.state.cred
    /\ authSessionId = NULL

\* A reauthBegin returned Success with another credential stored and a
\* handle live before it.
C1_Witness ==
  /\ IsReturn("success")
  /\ lastAct.op = "reauthBegin"
  /\ lastAct.preTok = "tokA"
  /\ lastAct.resp.state.cred = "tokB"
  /\ lastAct.preSid \in Sids

\* C2: when a step's response is Denied, the handle is null once the step
\* has returned, and neither part of the step (header handling, body
\* handling) changes the stored credential.
C2_DeniedKeepsCredential ==
  /\ IsReturn("denied") => authSessionId = NULL
  /\ (lastAct.act \in StepEvents /\ lastAct.resp.state.tag = "denied")
       => tokenStore = lastAct.preTok

\* A step was denied while a valid credential was stored and a handle live.
C2_Witness ==
  /\ IsReturn("denied")
  /\ lastAct.preTok \in Creds
  /\ lastAct.preSid \in Sids
  /\ tokenStore = lastAct.preTok

\* C3: a Continue response leaves the credential alone; its header step
\* leaves the handle unchanged or replaces it by the header's value, its
\* body step leaves the handle unchanged; a live handle is never cleared.
C3_ContinueFrame ==
  (lastAct.act \in StepEvents /\ lastAct.resp.state.tag = "continue") =>
    /\ tokenStore = lastAct.preTok
    /\ authSessionId \in {lastAct.preSid} \cup ({lastAct.resp.sid} \cap Sids)
    /\ lastAct.act = "return" => authSessionId = lastAct.preSid
    /\ lastAct.preSid # NULL => authSessionId # NULL

\* A Continue response replaced a live handle by the one in its header.
C3_Witness ==
  /\ lastAct.act = "headers"
  /\ lastAct.resp.state.tag = "continue"
  /\ lastAct.preSid = "sid1"
  /\ authSessionId = "sid2"
  /\ tokenStore \in Creds

\* C4: every request to /v1/auth, /v1/reauth and /v1/logout carries the
\* handle the server returned last if its negotiation is live (no header
\* otherwise), and the stored bearer credential if there is one; a handle
\* arriving in a response header is the handle from then on.
C4_RequestsCarrySession ==
  /\ lastAct.act = "send" =>
       /\ lastAct.reqSid = liveSid
       /\ lastAct.reqTok = tokenStore
  /\ (lastAct.act = "headers" /\ lastAct.resp.sid \in Sids) =>
       authSessionId = lastAct.resp.sid

\* A logout request went out with both a handle and a credential.
C4_Witness ==
  /\ lastAct.act = "send"
  /\ lastAct.op = "/v1/logout"
  /\ lastAct.reqSid \in Sids
  /\ lastAct.reqTok \in Creds

\* C5 (as claimed): a step that receives a non-2xx response changes neither
\* the handle nor the credential, also when that response carries a
\* session-id header. The header step runs before the ok test (auth.ts
\* 33-38, 154-159), so this is violated.
C5_FailureLeavesSession ==
  (lastAct.act \in {"headers", "throw"} /\ lastAct.resp.status = HttpFail) =>
    /\ authSessionId = lastAct.preSid
    /\ tokenStore = lastAct.preTok

\* C6: once signOut has finished, however logout() ended, the credential
\* and the handle are cleared, status is 'unauthenticated' and user is null.
C6_SignOutAlwaysClears ==
  lastAct.act = "signOutEnd" =>
    /\ tokenStore = NULL
    /\ authSessionId = NULL
    /\ status = "unauthenticated"
    /\ user = NULL

\* signOut finished after a transport-level failure of logout(), with a
\* credential and a handle held before.
C6_Witness ==
  /\ lastAct.act = "signOutEnd"
  /\ lastAct.op = "reject"
  /\ lastAct.preTok \in Creds
  /\ lastAct.preSid \in Sids
  /\ tokenStore = NULL

\* handleReauthPassword is running with these two values in its closure.
Submitting(pw, totp) ==
  /\ sub.phase \in {"first", "second"}
  /\ sub.pw = pw
  /\ sub.totp = totp

\* The handler ended in its catch block: a step threw or fetch rejected.
SubmitFailed ==
  /\ sub.phase = "idle"
  /\ reauthMessage \in {"error: network", "error: request failed"}

\* A 2xx response has reached the running handleReauthPassword.
SubmitAnswers ==
  {c \in InFlight : c.owner = "submit" /\ c.phase = "headers" /\ RespIsOk(c.resp)}

\* C7: against a service that requires password and totp and advertises
\* them in the order it picks, a submission holding both correct factors
\* always goes on to Success (or ends in a transport failure), and none
\* holding correct factors is answered with Denied; a submission holding
\* only one correct factor, in a negotiation that has accepted none yet, is
\* answered with Continue, never Success or Denied, and leaves the service
\* awaiting exactly the other factor.
C7_BothFactorsSucceed ==
  /\ [](\A c \in SubmitAnswers :
          (sub.pw # "bad" /\ sub.totp # "bad") => c.resp.state.tag # "denied")
  /\ [](\A f \in Factors : \A c \in SubmitAnswers :
          (/\ Submitting(IF f = "password" THEN "good" ELSE "",
                         IF f = "totp" THEN "good" ELSE "")
           /\ sub.fresh) =>
            /\ c.resp.state.tag = "continue"
            /\ srv.need = {Other(f)})
  /\ [](sub.phase = "after" /\ sub.fresh => sub.pw # "" /\ sub.totp # "")
  /\ (Submitting("good", "good") ~> (sub.phase = "after" \/ SubmitFailed))

\* The service advertised totp first, and the second step of one
\* submission, the password, has been answered with Success.
C7_Witness ==
  /\ Submitting("good", "good")
  /\ sub.phase = "second"
  /\ sub.first = "totp"
  /\ \E c \in SubmitAnswers : c.resp.state.tag = "success"

\* The reauthBegin requests that are outstanding.
ReauthBegins == {c \in InFlight : c.path = Path("reauthBegin")}

\* C8 (as claimed): however requestReauth() is called, also twice in
\* immediate succession, at most one reauthBegin request is outstanding:
\* a call made while a flow is open or in flight sends nothing. The guard
\* of line 342 reads the closure of the last render, so the second of two
\* back-to-back calls passes it and this is violated.
C8_OneFlowPerBurst ==
  /\ Cardinality(ReauthBegins) <= 1
  /\ \A c \in ReauthBegins : CopiesIn(c, net) = 1

\* C9: canEdit is true exactly when the UAT's purpose is the readwrite
\* variant and the instant its expiry denotes is strictly more than
\* 60000 ms after `now`; with expiry = now + 45000 ms it is false.
C9_CanEditIffBeyondMargin ==
  /\ canEdit <=>
       /\ uat # NoUat
       /\ uat.purpose.t = "readwrite"
       /\ uat.ms # NullNum
       /\ NumLt(NumAdd(now, NumOf(60000)), uat.ms)
  /\ (uat # NoUat /\ uat.ms = NumAdd(now, NumOf(45000))) => ~canEdit

\* A readwrite UAT expiring 45000 ms after a `now` that a tick has moved.
C9_Witness ==
  /\ uat # NoUat
  /\ uat.purpose.t = "readwrite"
  /\ now # T0
  /\ uat.ms = NumAdd(now, NumOf(45000))
  /\ ~canEdit

\* C10 (as claimed): for a readwrite UAT with expiry e, unlockedMinutes is
\* null exactly when e - now <= 60000 ms. The code compares e with `now`
\* alone (line 198), so e = now + 45000 gives 1, not null.
C10_WindowNullWithinMargin ==
  (uat # NoUat /\ uat.purpose.t = "readwrite" /\ uat.ms # NullNum) =>
    (unlockedMinutes = NullNum
       <=> ~NumLt(NumAdd(now, NumOf(60000)), uat.ms))

\* C11: for a fixed expiry the Privilege Window never grows as `now` moves
\* on: for now1 <= now2, a number at now2 means a number at least as large
\* at now1, and null at now1 means null at now2.
C11_WindowNonIncreasing ==
  \A k1 \in 0..MaxClock : \A k2 \in k1..MaxClock :
    LET w1 == computeWindow(rwExpiry, TimeAt(k1))
        w2 == computeWindow(rwExpiry, TimeAt(k2))
    IN  /\ w2 # NullNum => (w1 # NullNum /\ ~NumLt(w1, w2))
        /\ w1 = NullNum => w2 = NullNum

\* The interval has moved `now` on under a token whose window was three
\* minutes at mount: the shown window has come down to one minute.
C11_Witness ==
  /\ now # T0
  /\ computeWindow(rwExpiry, T0) = NumOf(3)
  /\ computeWindow(rwExpiry, TimeAt(1)) = NumOf(3)
  /\ unlockedMinutes = NumOf(1)

\* The mount check has just taken the step `op` and the provider is
\* mounted.
Checked(op) ==
  /\ lastAct.act = "check"
  /\ lastAct.op = op
  /\ ~mount.cancelled

\* C12: status starts as 'checking'; the mount check with no stored
\* credential makes it 'unauthenticated' and fetches no profile; with a
\* stored credential it fetches the profile and makes the status
\* 'authenticated' when the fetch succeeds, 'unauthenticated' with user
\* null when it fails; and while the provider stays mounted the status
\* eventually leaves 'checking'.
C12_MountCheckResolves ==
  /\ [](lastAct.act = "init" => status = "checking")
  /\ [](Checked("noCredential") =>
          /\ ~Truthy(lastAct.preTok)
          /\ status = "unauthenticated"
          /\ user = NULL
          /\ WhoamiCall("check") \notin InFlight)
  /\ [](Checked("fetch") => Truthy(lastAct.preTok))
  /\ [](Checked("ok") => status = "authenticated" /\ user = Profile)
  /\ [](Checked("failed") => status = "unauthenticated" /\ user = NULL)
  /\ <>(status # "checking" \/ mount.cancelled)

\* The profile fetch of the mount check has failed, after a consumer had
\* set the status to 'authenticated' in the meantime.
C12_Witness ==
  /\ Checked("failed")
  /\ lastAct.preTok = "tokA"
  /\ WhoamiCall("caller") \in InFlight
  /\ status = "unauthenticated"

\* Some name of the membership is, as spelled, one of `groups`.
Listed(members, groups) == \E i \in DOMAIN members : members[i] \in groups

\* C13: each permission flag is true exactly when some memberOf entry,
\* lower-cased and cut at its first '@', is in the capability's allow-list;
\* so the flags of a membership whose entries had letters change case and
\* '@domain' suffixes added or removed are those of the membership as
\* first served.
C13_PermissionsIgnoreCaseAndDomain ==
  /\ permissions.nameAllowed <=>
       \E i \in DOMAIN memberOf :
         toLowerCase(splitAtFirst(memberOf[i])) \in SELF_NAME_WRITE_GROUPS
  /\ permissions.emailAllowed <=>
       \E i \in DOMAIN memberOf :
         toLowerCase(splitAtFirst(memberOf[i])) \in SELF_MAIL_WRITE_GROUPS
  /\ permissions.selfWriteAllowed <=>
       \E i \in DOMAIN memberOf :
         toLowerCase(splitAtFirst(memberOf[i])) \in SELF_WRITE_GROUPS
  /\ permissions =
       [nameAllowed      |-> Listed(origin, SELF_NAME_WRITE_GROUPS),
        emailAllowed     |-> Listed(origin, SELF_MAIL_WRITE_GROUPS),
        selfWriteAllowed |-> Listed(origin, SELF_WRITE_GROUPS)]

\* A membership of 'Idm_all_persons@IDM' and an unrelated group: the
\* first entry has a capital and a domain suffix and still grants the name
\* and self-write permissions.
C13_Witness ==
  /\ Len(memberOf) = 2
  /\ memberOf[1] # origin[1]
  /\ toUpperChar(memberOf[1][1]) = memberOf[1][1]
  /\ HasDomain(memberOf[1])
  /\ origin = <<IdmAllPersons, IdmAdmins>>
  /\ permissions.nameAllowed
  /\ permissions.selfWriteAllowed
  /\ ~permissions.emailAllowed

\* The refetches a reauth handler has pending.
ProfilePending == {o \in ReauthOwners : WhoamiCall(o) \in InFlight}
UatPending == {o \in ReauthOwners : UatCall(o) \in InFlight}

\* A 2xx Success has reached a handler of the reauth UI.
SuccessAnswered ==
  \E c \in InFlight :
    /\ c.owner \in ReauthOwners
    /\ c.phase = "headers"
    /\ RespIsOk(c.resp)
    /\ c.resp.state.tag = "success"

\* The profile refetch after a Success was rejected: the handler stopped in
\* its catch block and the UI stays open with the error.
ProfileFetchFailed ==
  /\ reauthOpen
  /\ ~reauthLoading
  /\ reauthMessage = "error: request failed"

C15_TerminalClosesUi ==
  (\/ lastAct.act = "return" /\ lastAct.resp.state.tag = "denied"
   \/ lastAct.act = "refreshUat") =>
    /\ ~reauthOpen
    /\ reauthPassword = ""
    /\ reauthTotp = ""

\* C16 (as claimed): a transport failure or a denial met by an entry
\* point becomes a message in the state of its flow and never leaves the
\* entry point as a rejected promise; for signOut: its promise is never
\* rejected. signOut has try / finally without catch (lines 71-79) and its
\* caller discards the promise, so this is violated.
C16_ErrorsBecomeMessages ==
  lastAct.act = "signOutEnd" => signOutResult(lastAct.op) = "resolved"

\* Text that is empty or made of blanks only.
OnlyBlanks(str) == \A i \in 1..Len(str) : str[i] = " "

\* C17: a submission that local validation rejects sends no request and
\* leaves the CUStatus as it was; all it does is set an error message:
\* submitPasswordChange with an empty password or one that differs from its
\* confirmation, submitPasskeyLabel with an empty or blank label, and
\* submitTotpEnrollment() with an empty or blank label or code.
C17_ValidationIsLocal ==
  [][/\ (SubmitPasswordChange
           /\ (cu.password = "" \/ cu.password # cu.passwordConfirm))
        => /\ cuNet' = cuNet
           /\ cu' = [cu EXCEPT !.message = "messagePasswordMismatch"]
     /\ (SubmitPasskeyLabel /\ OnlyBlanks(cu.passkeyLabel))
        => /\ cuNet' = cuNet
           /\ cu' = [cu EXCEPT !.message = "messagePasskeyLabelRequired"]
     /\ (SubmitTotpEnrollment(FALSE)
           /\ (OnlyBlanks(cu.totpLabel) \/ OnlyBlanks(cu.totpCode)))
        => /\ cuNet' = cuNet
           /\ cu'.status = cu.status
           /\ cu'.totpError # NULL
           /\ cu.totpPayload # NoPayload
                => cu' = [cu EXCEPT !.totpError = "messageTotpNameCodeRequired"]
    ]_vars

\* A mismatching password and an incomplete TOTP form have both been
\* rejected, and nothing is in flight.
C17_Witness ==
  /\ cu.message = "messagePasswordMismatch"
  /\ cu.password # "" /\ cu.password # cu.passwordConfirm
  /\ cu.totpError = "messageTotpNameCodeRequired"
  /\ cuNet = EmptyBag

\* The totpgenerate request of the beginTotpEnrollment() that
\* submitPasswordChange awaits.
StagingGenerate == Bare("totpgenerate", "submitPasswordChange")

\* C18: when the staging of a password succeeds and the returned status
\* warns MfaRequired, the same step opens the TOTP modal and sends
\* 'totpgenerate', with no handler run of the user's in between; otherwise
\* the step sends no 'totpgenerate'. Handling the answer to the request
\* leaves the modal as it is, and until then only the answer to a cancel
\* or a verify of the user's closes the modal.
C18_StagingBeginsTotp ==
  /\ [][\A c \in CuInFlight : \A reply \in CuReplies(c) :
          (PasswordAnswered(c, reply) /\ reply.ok)
            => IF MfaRequired \in reply.status.warnings
                 THEN /\ BagIn(StagingGenerate, cuNet')
                      /\ cu'.totpModalOpen
                      /\ cuRuns' = cuRuns
                 ELSE \A g \in CuInFlight \cup BagToSet(cuNet') :
                        g.op = "totpgenerate"
                          => CopiesIn(g, cuNet') = CopiesIn(g, cuNet)]_vars
  /\ [][\A c \in CuInFlight : \A reply \in CuReplies(c) :
          (TotpGenerated(c, reply) /\ c = StagingGenerate)
            => cu'.totpModalOpen = cu.totpModalOpen]_vars
  /\ [][(BagIn(StagingGenerate, cuNet) /\ cu.totpModalOpen
           /\ ~cu'.totpModalOpen)
          => \E c \in CuInFlight : \E reply \in CuReplies(c) :
               TotpVerified(c, reply) \/ TotpCancelAnswered(c, reply)]_vars

\* The password was staged, the status warns MfaRequired, and with that
\* one handler run the secret has arrived and the modal is open.
C18_Witness ==
  /\ cuRuns = 1
  /\ cu.message = "messagePasswordStaged"
  /\ MfaRequired \in cu.status.warnings
  /\ cu.totpPayload # NoPayload
  /\ cu.totpModalOpen
  /\ ~BagIn(StagingGenerate, cuNet)

\* C19: handling a totpverify response whose mfaregstate is TotpTryAgain
\* sets the TOTP error message and leaves the modal, the provisioning
\* payload, the QR image and the entered label and code as they were.
C19_TryAgainKeepsEnrollment ==
  [][\A c \in CuInFlight : \A reply \in CuReplies(c) :
       (/\ TotpVerified(c, reply)
        /\ c.op = "totpverify"
        /\ reply.ok
        /\ reply.status.mfaregstate = RegTotpTryAgain)
         => /\ cu'.totpError = "messageTotpTryAgain"
            /\ cu'.totpModalOpen = cu.totpModalOpen
            /\ cu'.totpPayload = cu.totpPayload
            /\ cu'.totpQr = cu.totpQr
            /\ cu'.totpLabel = cu.totpLabel
            /\ cu'.totpCode = cu.totpCode]_vars

\* The service has asked for another code: the modal is up with the
\* secret, its QR image and what the user had entered.
C19_Witness ==
  /\ cu.status.mfaregstate = RegTotpTryAgain
  /\ cu.totpError = "messageTotpTryAgain"
  /\ cu.totpModalOpen
  /\ cu.totpPayload = buildTotpPayload("s1")
  /\ cu.totpQr = toDataURL(cu.totpPayload.uri)
  /\ ~OnlyBlanks(cu.totpLabel)
  /\ ~OnlyBlanks(cu.totpCode)

\* C20: handling a successful response to totpverify or totpacceptsha1
\* leaves an open modal open exactly when the response's mfaregstate is
\* TotpInvalidSha1, TotpTryAgain or TotpNameTryAgain; for any other
\* mfaregstate the modal is closed and the payload, the QR image, the label,
\* the code and the SHA1 warning are cleared. The SHA1 warning, which is
\* what shows the accept button, is raised only by handling a
\* TotpInvalidSha1 response, and every beginTotpEnrollment lowers it.
C20_ModalFollowsRegState ==
  /\ [][\A c \in CuInFlight : \A reply \in CuReplies(c) :
          (TotpVerified(c, reply) /\ reply.ok)
            => LET tag == reply.status.mfaregstate.tag
               IN  IF tag \in {"TotpInvalidSha1", "TotpTryAgain",
                               "TotpNameTryAgain"}
                     THEN cu'.totpModalOpen = cu.totpModalOpen
                     ELSE /\ ~cu'.totpModalOpen
                          /\ cu'.totpPayload = NoPayload
                          /\ cu'.totpQr = NoQr
                          /\ cu'.totpLabel = <<>>
                          /\ cu'.totpCode = <<>>
                          /\ ~cu'.totpSha1Warning]_vars
  /\ [][(~cu.totpSha1Warning /\ cu'.totpSha1Warning)
          => \E c \in CuInFlight : \E reply \in CuReplies(c) :
               /\ TotpVerified(c, reply)
               /\ reply.ok
               /\ reply.status.mfaregstate = RegTotpInvalidSha1]_vars
  /\ [][(~cu.totpModalOpen /\ cu'.totpModalOpen) => ~cu'.totpSha1Warning]_vars

\* The service has answered TotpInvalidSha1: the modal is still up with the
\* secret and offers to accept the SHA1 token.
C20_Witness ==
  /\ cu.status.mfaregstate = RegTotpInvalidSha1
  /\ cu.totpModalOpen
  /\ cu.totpSha1Warning
  /\ cu.totpError = "messageTotpSha1"
  /\ cu.totpPayload # NoPayload

\* C21: cancelTotpEnrollment sends 'cancelmfareg'. Handling a successful
\* answer replaces the CUStatus by the response, closes the TOTP modal,
\* clears the payload, the QR image, the label, the code and the SHA1
\* warning and sets the cancelled flag; handling a failure leaves the modal,
\* the cancelled flag and the CUStatus as they were and shows an error.
C21_CancelTotp ==
  /\ [][CancelTotpEnrollment
          => CopiesIn(Bare("cancelmfareg", "cancelTotpEnrollment"), cuNet') =
             CopiesIn(Bare("cancelmfareg", "cancelTotpEnrollment"), cuNet) + 1
     ]_vars
  /\ [][\A c \in CuInFlight : \A reply \in CuReplies(c) :
          TotpCancelAnswered(c, reply)
            => IF reply.ok
                 THEN /\ cu'.status = reply.status
                      /\ ~cu'.totpModalOpen
                      /\ cu'.totpPayload = NoPayload
                      /\ cu'.totpQr = NoQr
                      /\ cu'.totpLabel = <<>>
                      /\ cu'.totpCode = <<>>
                      /\ ~cu'.totpSha1Warning
                      /\ cu'.totpCancelled
                 ELSE /\ cu'.status = cu.status
                      /\ cu'.totpModalOpen = cu.totpModalOpen
                      /\ cu'.totpCancelled = cu.totpCancelled
                      /\ cu'.totpPayload = cu.totpPayload
                      /\ cu'.totpError = "error.message"]_vars

\* An enrollment that had its secret was cancelled: the modal is gone and
\* the retry link is offered.
C21_Witness ==
  /\ cu.totpCancelled
  /\ ~cu.totpModalOpen
  /\ cu.totpPayload = NoPayload
  /\ cu.status = CUStatus({MfaRequired}, RegNone)
  /\ cuNet = EmptyBag
  /\ ~cu.loading

\* The sendCredentialUpdate requests in flight.
CuRequests == {c \in CuInFlight : c.op \notin {"qr", "webauthn"}}

\* A handler resumes on the answer to its request.
CuAnswered(c, reply) ==
  \/ PasswordAnswered(c, reply)
  \/ TotpGenerated(c, reply)
  \/ TotpVerified(c, reply)
  \/ TotpCancelAnswered(c, reply)
  \/ PasskeyInitAnswered(c, reply)
  \/ PasskeyFinishAnswered(c, reply)

\* C22: a credential update request that fails finds the cached CUStatus
\* exactly as it was when the request was sent, is not sent again, and
\* leaves an error message; only the body of a successful response
\* replaces the CUStatus. As any pending request may fail, the first part
\* says that no step changes the CUStatus under a request that is still
\* pending after the step.
C22_FailureKeepsSnapshot ==
  /\ [][\A c \in CuRequests :
          BagIn(c, cuNet') => cu'.status = cu.status]_vars
  /\ [][\A c \in CuRequests : \A reply \in CuReplies(c) :
          (CuAnswered(c, reply) /\ ~reply.ok)
            => /\ cu'.status = cu.status
               /\ cuNet' = cuNet (-) One(c)
               /\ cu'.message # NULL \/ cu'.totpError # NULL]_vars
  /\ [][cu'.status # cu.status
          => \E c \in CuRequests : \E reply \in CuReplies(c) :
               CuAnswered(c, reply) /\ reply.ok /\ cu'.status = reply.status
     ]_vars

\* A handler (by the owner of its calls) returns in this step: it awaited a
\* call before the step and awaits none after it.
HandlerReturns(owner) ==
  /\ \E c \in PgInFlight : c.owner = owner
  /\ ~\E c \in BagToSet(pgNet') : c.owner = owner

\* C23: committing or cancelling a credential update session always ends
\* with the local session token and status snapshot cleared: once
\* commitCredentialChanges or cancelCredentialChanges has returned, no local
\* session remains, whatever the server answered.
C23_NoSessionAfterCommitOrCancel ==
  [][(HandlerReturns("commit") \/ HandlerReturns("cancel")) =>
       (pg'.credSession = NULL /\ pg'.credStatus = NULL)]_vars

\* The error texts of an expired authentication.
ExpiredTexts ==
  {<<"(", "4", "0", "1", ")">>,
   <<"S", "e", "s", "s", "i", "o", "n", "E", "x", "p", "i", "r", "e", "d">>}

\* C24: in the profile credential commit, when the commit succeeded and a
\* follow-up fetch (credential summary or self profile) fails with an
\* expired authentication, the Session Store credential and handle are
\* cleared, the 'credentials updated' notice is stored and the client goes
\* to login without showing an error; when the commit request itself fails,
\* the credential is kept, the session stays open and the error is shown.
C24_ExpiredAfterCommit ==
  [][/\ \A c \in FollowUpCalls("commit"), reply \in PgReplies :
          (CommitFollowedUp(c, reply) /\ reply.text \in ExpiredTexts) =>
            /\ tokenStore' = NULL
            /\ authSessionId' = NULL
            /\ pg'.notice = "credentialsUpdated"
            /\ pg'.route = "login"
            /\ pg'.credMessage = NoMsg
     /\ \A reply \in PgReplies :
          (CommitAnswered(reply) /\ ~reply.ok) =>
            /\ tokenStore' = tokenStore
            /\ authSessionId' = authSessionId
            /\ pg'.credSession = pg.credSession
            /\ pg'.credSession # NULL
            /\ pg'.credStatus # NULL
            /\ pg'.credMessage = ErrorText(reply.text)
            /\ pg'.route = "profile"
            /\ pg'.notice = NULL]_vars

\* The commit went through, a follow-up fetch found the session expired
\* while a handle was live: the client is at login with the notice stored
\* and the Session Store empty.
C24_Witness ==
  /\ lastAct.act = "ui"
  /\ lastAct.op = "handleSessionExpiredAfterCommit"
  /\ lastAct.preTok = "tokA"
  /\ lastAct.preSid # NULL
  /\ tokenStore = NULL
  /\ authSessionId = NULL
  /\ pg.route = "login"
  /\ pg.notice = "credentialsUpdated"
  /\ pg.credSession = NULL

\* A gated handler runs in this step.
GatedAttempt ==
  \/ HandleProfileSave
  \/ StartCredentialSession
  \/ \E op \in RadiusOps : RadiusHandler(op)
  \/ HandleAdd
  \/ HandleDelete
  \/ HandleSubmit
\* The calls this step puts in flight.
PgSent == {c \in BagToSet(pgNet') : CopiesIn(c, pgNet') > CopiesIn(c, pgNet)}
ReauthBeginSent ==
  \E c \in BagToSet(net') :
    /\ c.owner = "begin"
    /\ c.path = "reauthBegin"
    /\ c.phase = "sent"
    /\ CopiesIn(c, net') = CopiesIn(c, net) + 1

\* C25: when an elevation-gated action (profile save, opening a credential
\* update session, RADIUS regenerate/clear, SSH key add/delete, person
\* create) is attempted while canEdit is false, requestReauth() is called
\* (the reauth dialog opens and its begin request goes out) and no request
\* of the page is sent; a mutating request is sent only with canEdit, and
\* the one opening a credential update session only with canEdit and
\* selfWriteAllowed both true.
C25_GatedActionsAskForReauth ==
  [][/\ (~reauthOpen /\ ~canEdit /\ GatedAttempt) =>
          /\ pgNet' = pgNet
          /\ reauthOpen'
          /\ reauthLoading'
          /\ ReauthBeginSent
     /\ \A c \in PgSent :
          /\ c.op \in MutatingOps => canEdit
          /\ c.op = "beginCredentialUpdate" =>
               (canEdit /\ permissions.selfWriteAllowed)]_vars

\* An SSH key was to be added with a readwrite token inside the cutoff
\* margin: the reauth dialog is open, its begin request is in flight, and
\* the page has sent nothing.
C25_Witness ==
  /\ pg.route = "ssh"
  /\ uat.purpose.t = "readwrite"
  /\ ~canEdit
  /\ reauthOpen
  /\ reauthLoading
  /\ \E c \in InFlight : c.owner = "begin" /\ c.phase = "sent"
  /\ pgNet = EmptyBag

\* C28: the Session Store credential is written only by a negotiation
\* step's Success handling and by explicit sign-out, and by no page-level
\* handler; the UAT is written only by the refresh of the Access Evaluator
\* and its reset on leaving 'authenticated'.
C28_SessionStoreWriters ==
  /\ [][tokenStore' # tokenStore =>
          \/ lastAct'.act = "return" /\ lastAct'.resp.state.tag = "success"
          \/ lastAct'.act = "signOutEnd"]_vars
  /\ [][uat' # uat =>
          \/ lastAct'.act = "refreshUat"
          \/ status' # "authenticated"]_vars

\* C26: at most one credential update request is outstanding at any time,
\* and loading is true for as long as one is in flight.
C26_OneRequestAtATime ==
  /\ Cardinality(CuRequests) <= 1
  /\ CuRequests # {} => cu.loading

\* C27: a response that arrives after its component has unmounted changes no
\* state: once the provider is unmounted, the late result of the mount
\* check's profile fetch writes neither status nor user.
C27_LateCheckWritesNothing ==
  [][\A ok \in BOOLEAN :
       (CheckDone(ok) /\ mount.cancelled) =>
         (status' = status /\ user' = user)]_vars

\* C29: the 30-second timer runs only while a Privilege Window is open:
\* once the window shown is null (the expiry of the held UAT has passed, or
\* there is no readwrite UAT) no interval is armed and no tick writes `now`.
C29_TimerOnlyWhileWindowOpen ==
  /\ [](unlockedMinutes = NullNum => timerDue = -1)
  /\ [][unlockedMinutes = NullNum => now' = now]_vars

\* C30: whenever the Privilege Window is not null it is the ceiling of
\* (expiry - now) / 60000, i.e. the one whole number m with
\* (m - 1) * 60000 < expiry - now <= m * 60000, and it is at least 1.
C30_WindowIsCeilingOfMinutes ==
  unlockedMinutes # NullNum =>
    LET d == NumSub(rwExpiry, now)
        m == unlockedMinutes
    IN  /\ ~NumLt(m, NumOf(1))
        /\ NumLt(NumTimes(NumSub(m, NumOf(1)), MsPerMinute), d)
        /\ ~NumLt(NumTimes(m, MsPerMinute), d)

\* A tick has moved `now` to 75 s before the expiry: the window shows 2.
C30_Witness ==
  /\ now # T0
  /\ NumSub(rwExpiry, now) = NumOf(75000)
  /\ unlockedMinutes = NumOf(2)
\* C31: a numeric UAT expiry below 10^12 is read as epoch seconds (times
\* 1000), one of 10^12 or more as epoch milliseconds (as is); a null
\* expiry, or an expiry of 0, gives no window and canEdit false.
C31_ExpiryUnitByMagnitude ==
  (uat # NoUat /\ uat.purpose.t = "readwrite") =>
    LET raw == uat.purpose.expiry
        TenToTwelve == NumTimes(NumOf(1000000000), 1000)
    IN  /\ (raw.t = "number" /\ NumLt(raw.n, TenToTwelve)) =>
             rwExpiry = NumTimes(raw.n, 1000)
        /\ (raw.t = "number" /\ ~NumLt(raw.n, TenToTwelve)) =>
             rwExpiry = raw.n
        /\ (raw.t = "null" \/ (raw.t = "number" /\ raw.n = Zero)) =>
             (unlockedMinutes = NullNum /\ ~canEdit)

\* An expiry given in epoch seconds, 150 s after mount: the window shows 3
\* minutes and editing is allowed.
C31_Witness ==
  /\ uat # NoUat
  /\ uat.purpose.expiry = AsSeconds(150000)
  /\ unlockedMinutes = NumOf(3)
  /\ canEdit

\* The first factor of the running submission has been answered with a
\* Continue that lists the other factor, which the form does not hold.
FactorDemanded(c) ==
  /\ c \in InFlight
  /\ c.owner = "submit"
  /\ c.phase = "headers"
  /\ c.resp.state.tag = "continue"
  /\ sub.phase = "first"
  /\ Other(sub.first) \in c.resp.state.allowed
  /\ (IF Other(sub.first) = "totp" THEN sub.totp ELSE sub.pw) = ""

\* C32: in the reauth password/TOTP submission, when the first factor is
\* answered with a Continue listing the other factor and the user has not
\* supplied it, no second credential request is sent, the 'factor
\* required' message is set, the allowed list is replaced by the new one,
\* the reauth UI stays open and the handle is kept; a later submission
\* goes out with the handle of the negotiation the service still holds.
C32_MissingFactorKeepsNegotiation ==
  [][/\ \A c \in InFlight :
          (FactorDemanded(c) /\ SubmitReturn) =>
            /\ net' = net (-) One(c)
            /\ reauthMessage' = (IF Other(sub.first) = "totp"
                                   THEN "reauthTotpRequired"
                                   ELSE "reauthPasswordRequired")
            /\ reauthAllowed' = c.resp.state.allowed
            /\ reauthOpen'
            /\ authSessionId' = authSessionId
            /\ authSessionId' # NULL
            /\ authSessionId' = srv'.sid
            /\ srv'.need = {Other(sub.first)}
     /\ (SubmitReauth /\ sub'.phase = "first" /\ srv.need # {}) =>
          \E c \in BagToSet(net') :
            /\ c.owner = "submit"
            /\ c.phase = "sent"
            /\ c.req.sid = srv.sid]_vars

\* The password alone was submitted, the service asked for the TOTP, and
\* the form, still open, now holds the TOTP: the next submission has been
\* answered with Success under the same handle.
C32_Witness ==
  /\ reauthOpen
  /\ sub.phase = "first"
  /\ sub.first = "totp"
  /\ sub.pw = "good"
  /\ sub.totp = "good"
  /\ reauthAllowed = {"totp"}
  /\ \E c \in SubmitAnswers : c.resp.state.tag = "success"

\* The calls of one operation that a step puts in flight.
PasskeySent(op) ==
  {c \in BagToSet(cuNet') :
     c.op = op /\ CopiesIn(c, cuNet') > CopiesIn(c, cuNet)}

\* C33: Passkey enrollment runs in order. The key-creation ceremony starts
\* only from a passkeyinit response that carries a challenge, and with that
\* challenge; the label modal comes up only when the ceremony succeeded, holding
\* that ceremony's registration; passkeyfinish is sent only while the label
\* modal is up, with the held registration and a non-empty trimmed label. A
\* passkeyinit that fails or carries no challenge, and a ceremony that fails,
\* leave the modal down, hold no registration and send nothing.
C33_PasskeyEnrollmentOrder ==
  [][ /\ \A w \in PasskeySent("webauthn") :
           \E c \in CuInFlight, ch \in Challenges :
             /\ c.op = "passkeyinit"
             /\ PasskeyInitAnswered(c, CuOk(CUStatus({}, RegPasskey(ch))))
             /\ w.passkey = ch
      /\ (cu'.passkeyLabelOpen /\ ~cu.passkeyLabelOpen) =>
           \E w \in CuInFlight :
             /\ w.op = "webauthn"
             /\ PasskeyCreated(w, TRUE)
             /\ cu'.pendingPasskey = performPasskeyCreation(w.passkey)
      /\ \A f \in PasskeySent("passkeyfinish") :
           /\ cu.passkeyLabelOpen
           /\ cu.pendingPasskey # NoRegistration
           /\ f.passkey = cu.pendingPasskey
           /\ f.label = trim(cu.passkeyLabel)
           /\ f.label # <<>>
      /\ \A c \in CuInFlight :
           /\ \A reply \in CuReplies(c) :
                ( /\ PasskeyInitAnswered(c, reply)
                  /\ \/ ~reply.ok
                     \/ reply.status.mfaregstate.tag # "Passkey" )
                  => /\ cuNet' = cuNet (-) One(c)
                     /\ ~cu'.passkeyLabelOpen
                     /\ cu'.pendingPasskey = NoRegistration
           /\ PasskeyCreated(c, FALSE)
                => /\ cuNet' = cuNet (-) One(c)
                   /\ ~cu'.passkeyLabelOpen
                   /\ cu'.pendingPasskey = NoRegistration
    ]_vars

\* A passkeyfinish is in flight with the second challenge's registration.
C33_Witness ==
  \E f \in CuInFlight :
    /\ f.op = "passkeyfinish"
    /\ f.passkey = performPasskeyCreation("ch2")
    /\ f.label = <<"k">>
    /\ cu.passkeyLabelOpen

C38_CanEditImpliesWindowOfTwo ==
  canEdit =>
    /\ unlockedMinutes # NullNum
    /\ ~NumLt(unlockedMinutes, NumOf(2))

\* The token expires one millisecond beyond the margin: editing is allowed
\* and the window shows 2.
C38_Witness ==
  /\ canEdit
  /\ unlockedMinutes = NumOf(2)
  /\ NumSub(rwExpiry, now) = NumOf(CutoffMarginMs + 1)

\* C35: A reauthBegin sent after an earlier reauth flow was left while it
\* awaited factors (a Continue had been received, the UI was cancelled)
\* carries no session handle.
C35_LaterNegotiationStartsBare ==
  [][ (requestReauth /\ reauthAllowed # {}) => lastAct'.reqSid = NULL ]_vars

\* C36: Whenever the auth status is 'authenticated' the Session Store holds
\* a credential.
C36_AuthenticatedHoldsCredential ==
  status = "authenticated" => Truthy(tokenStore)

\* C37: While the auth status is not 'authenticated' the UAT is null and
\* canEdit is false, also after a UAT fetch started before the status
\* change has settled.
C37_NoUatUnlessAuthenticated ==
  status # "authenticated" => (uat = NoUat /\ ~canEdit)

\* No handler of the credential sections is at an await (QR builds are not
\* handlers).
CuHandlersIdle == \A c \in CuInFlight : c.op = "qr"

\* The credential update session's flag: it is up only while a handler is
\* at an await, and once up it is eventually down again.
CuLoadingEnds ==
  /\ [](CuHandlersIdle => ~cu.loading)
  /\ cu.loading ~> ~cu.loading

====
